---- MODULE Spec2Model ----
(***************************************************************************)
(* A model of the arachne scraping service (package main of the           *)
(* repository): the per-host circuit breaker, the admission semaphores,    *)
(* the batch fan-out of Scraper.ScrapeURLs, the pagination loop of         *)
(* Scraper.ScrapeSite, the asynchronous job API and its job store.         *)
(*                                                                         *)
(* The module holds several specifications over one set of variables:      *)
(*   SpecCB        one CircuitBreaker used by concurrent callers of        *)
(*                 Execute, with a discrete clock;                         *)
(*   Spec          the job pipeline: HandleScrape, executeScrapingJob,     *)
(*                 ScrapeURLs / ScrapeSite, the semaphores, the shared     *)
(*                 WaitGroup and the job store (in-memory or Redis);       *)
(*   SpecAdmission the semaphores under concurrent fetches;                *)
(*   SpecRetry     doScrape: the retry loop around the host's breaker;     *)
(*   SpecLayered   the fetches at the semaphores under fair scheduling;    *)
(*   SpecSite      the pagination loop of ScrapeSite, and SpecSiteFair,    *)
(*                 the same under fair scheduling;                         *)
(*   SpecStore     a client of the job store;                              *)
(*   SpecMem       the map accesses of InMemoryStorage;                    *)
(*   SpecTitle     extractTitle applied to bodies;                         *)
(*   SpecTimeout   the fetches of one ScrapeURLs call and its deadline;    *)
(*   SpecStatus    doScrape against each HTTP status.                      *)
(* SpecRetry, SpecTimeout and SpecStatus run Execute by the actions of     *)
(* SpecCB; otherwise a specification leaves the others' variables alone.   *)
(***************************************************************************)
EXTENDS Integers, Sequences, FiniteSets, TLC

VARIABLES
    now,        \* the wall clock (time.Now()), in ticks
    \* ---- circuit breaker (SpecCB) ----
    cb,         \* the CircuitBreaker struct
    cpc,        \* caller -> position inside CircuitBreaker.Execute
    ret,        \* caller -> what its last Execute call returned
    calls,      \* number of Execute calls started so far
    consec,     \* failures recorded since the last recorded success
    \* ---- configuration and process (Spec) ----
    storageKind,    \* "memory" (InMemoryStorage) or "redis" (RedisStorage)
    config,         \* Config: MaxConcurrent, DomainRateLimit["h1"],
                    \* RetryAttempts, RetryDelay, CircuitBreakerThreshold,
                    \* CircuitBreakerTimeout
    crashed,        \* an unrecovered panic has ended the process
    \* ---- job store ----
    memJobs,        \* InMemoryStorage.jobs: job id -> the job object its
                    \* entry points to (the number of its slot), 0: no entry
    redisKV,        \* Redis: job id -> the JSON object under job:<id> and the
                    \* time at which the key expires
    redisAll,       \* Redis: the set jobs:all
    \* ---- API handler and executor ----
    req,            \* job slot -> the HTTP request of HandleScrape
    hpc,            \* job slot -> position of HandleScrape
    resp,           \* job slot -> HTTP status answered (0: none yet)
    job,            \* job slot -> the *ScrapingJob object on the heap
    epc,            \* job slot -> position of executeScrapingJob
    \* ---- Scraper ----
    fpc,            \* job -> i -> position of fetch i (i = 0: the synchronous
                    \* fetch of ScrapeSite, i >= 1: goroutine of URLs[i])
    resultsChan,    \* job -> buffered results channel (sequence)
    chanClosed,     \* job -> the results channel is closed
    results,        \* job -> the results slice collected so far
    closer,         \* job -> position of the goroutine wg.Wait(); close()
    rateLimiter,    \* tokens held in Scraper.rateLimiter
    domainLimiters, \* host -> tokens held in Scraper.domainLimiters[host]
    wg,             \* Scraper.wg: [v |-> counter, w |-> waiters]
    site,           \* job -> locals of ScrapeSite (queue, visited, pages)
    \* ---- doScrape (SpecRetry): worker c is caller c of the breaker ----
    input,          \* worker -> [url, script]: its URL and the responses
                    \* the server gives to successive requests for it
    rpc,            \* worker -> position inside doScrape
    attempt,        \* worker -> the loop variable attempt
    script,         \* worker -> the responses not yet given
    fnErr,          \* worker -> the error of its last strategy call
    lastErr,        \* worker -> the local lastErr
    data,           \* worker -> the ScrapedData being filled in
    invocations,    \* worker -> number of strategy.Execute calls made
    slept,          \* worker -> the durations of its time.Sleep calls
    wakeAt,         \* worker -> end of the running time.Sleep
    metrics,        \* number of calls of each Metrics.Record* method
    breakers,       \* circuit breakers created for the host
    \* ---- a client of the job store (SpecStore) ----
    lastOp,         \* job id -> the client's most recent call on the id
    storeCall,      \* the client's call that is inside the store
    passedStart,    \* job -> the started_at of the running record that
                    \* executeScrapingJob handed to UpdateJob at line 172
    \* ---- goroutines inside InMemoryStorage's map (SpecMem) ----
    mapWriters,     \* jobs whose handler or executor is inside a write of
                    \* m.jobs (SaveJob, UpdateJob)
    mapReaders,     \* job ids whose status request is inside the read of
                    \* m.jobs (GetJob)
    mapRaced,       \* job -> the other writers that were inside a write of
                    \* m.jobs at some time during the job's current write
    \* ---- extractTitle applied to a body (SpecTitle) ----
    content,        \* the string extractTitle is given next
    contentType,    \* the Content-Type it is given
    titles,         \* the titles extracted so far, oldest first
    \* ---- the context of ScrapeURLs (SpecTimeout) ----
    ctxDone         \* the deadline TotalTimeout of ctx has passed

cbVars == <<cb, cpc, ret, calls, consec>>

storeVars == <<memJobs, redisKV, redisAll>>

apiVars == <<req, hpc, resp, job, epc>>

scraperVars == <<fpc, resultsChan, chanClosed, results, closer,
                 rateLimiter, domainLimiters, wg, site>>

retryVars == <<input, rpc, attempt, script, fnErr, lastErr, data, invocations,
               slept, wakeAt, metrics, breakers>>

confVars == <<storageKind, config>>
mapVars == <<mapWriters, mapReaders, mapRaced>>

titleVars == <<content, contentType, titles>>

ctxVars == <<ctxDone>>

clientRest == <<lastOp, storeCall, mapVars, titleVars, ctxVars>>

clientVars == <<clientRest, passedStart>>

jobVars == <<confVars, clientVars, crashed, storeVars, apiVars, scraperVars>>

vars == <<now, cbVars, jobVars, retryVars>>

(***************************************************************************)
(* Bounds of the model.                                                    *)
(***************************************************************************)
MaxTime == 3            \* the clock of SpecCB runs 0..MaxTime
NumCallers == 2         \* concurrent callers of one breaker
MaxCalls == 4           \* Execute calls started in one behaviour
MaxThreshold == 2       \* failureThreshold ranges over 1..MaxThreshold
MaxResetTimeout == 2    \* resetTimeout ranges over 1..MaxResetTimeout
NumJobs == 2             \* requests handled by HandleScrape in one behaviour
MaxURLs == 2             \* URLs the requests of one behaviour may ask for
MaxJobTime == 1         \* the clock of Spec runs 0..MaxJobTime
MaxConcurrent == 2      \* Config.MaxConcurrent ranges over 1..MaxConcurrent
DomainLimit == 1        \* Config.DomainRateLimit["h1"] ranges over 1..DomainLimit
MaxAdmissionURLs == 3   \* URLs of the running jobs of SpecAdmission
MaxRetryAttempts == 3   \* Config.RetryAttempts ranges over 0..MaxRetryAttempts
MaxRetryThreshold == 3  \* in SpecRetry the threshold ranges over 1..MaxRetryThreshold
MaxRetryDelay == 1      \* Config.RetryDelay ranges over 1..MaxRetryDelay
MaxStoreTime == 1       \* the clock of SpecStore runs over 0..MaxStoreTime
MaxPages == 2           \* Config.MaxPages
MaxBodyLen == 3         \* a body given to extractTitle has up to MaxBodyLen tokens
MaxExtractions == 2     \* extractTitle is applied up to MaxExtractions times in a row
MaxStatus == 599         \* the HTTP error statuses of SpecStatus are ErrorStatus..MaxStatus

Callers == 1..NumCallers

Jobs == 1..NumJobs

(***************************************************************************)
(* The circuit breaker: CircuitBreakerState and the CircuitBreaker struct. *)
(***************************************************************************)
StateClosed == "CLOSED"
StateOpen == "OPEN"
StateHalfOpen == "HALF_OPEN"

\* halfOpenLimit given by NewCircuitBreaker
HalfOpenLimit == 1

\* The zero time.Time of a breaker that has not failed yet: earlier than
\* every clock value, and farther back than every resetTimeout.
ZeroTime == 0 - 1

TimeSince(t, clock) ==
    IF t = ZeroTime THEN clock + MaxResetTimeout + 1 ELSE clock - t

NewCircuitBreakerWithConfig(failureThreshold, resetTimeout, halfOpenLimit, clock) ==
    [ failureThreshold |-> failureThreshold,
      resetTimeout     |-> resetTimeout,
      halfOpenLimit    |-> halfOpenLimit,
      state            |-> StateClosed,
      failureCount     |-> 0,
      successCount     |-> 0,
      lastFailureTime  |-> ZeroTime,
      totalRequests    |-> 0,
      totalFailures    |-> 0,
      totalSuccesses   |-> 0,
      lastStateChange  |-> clock ]

NewCircuitBreaker(failureThreshold, resetTimeout, clock) ==
    NewCircuitBreakerWithConfig(failureThreshold, resetTimeout, HalfOpenLimit, clock)

\* a transition to open that keeps the counters
transitionToOpen_KeepCounts(b, clock) ==
    IF b.state # StateOpen
    THEN [b EXCEPT !.state = StateOpen, !.lastStateChange = clock]
    ELSE b

transitionToOpen(b, clock) ==
    IF b.state # StateOpen
    THEN [b EXCEPT !.state = StateOpen, !.lastStateChange = clock,
                   !.failureCount = 0, !.successCount = 0]
    ELSE b

transitionToHalfOpen(b, clock) ==
    IF b.state # StateHalfOpen
    THEN [b EXCEPT !.state = StateHalfOpen, !.lastStateChange = clock,
                   !.failureCount = 0, !.successCount = 0]
    ELSE b

transitionToClosed(b, clock) ==
    IF b.state # StateClosed
    THEN [b EXCEPT !.state = StateClosed, !.lastStateChange = clock,
                   !.failureCount = 0, !.successCount = 0]
    ELSE b

\* canExecute: the lazy open -> half-open transition, then the admission
\* decision.  The result is the breaker after the call and the answer.
canExecute(b, clock) ==
    LET b1 == IF b.state = StateOpen
                 /\ TimeSince(b.lastFailureTime, clock) >= b.resetTimeout
              THEN transitionToHalfOpen(b, clock)
              ELSE b
    IN [ cb |-> b1,
         ok |-> CASE b1.state = StateClosed   -> TRUE
                  [] b1.state = StateOpen     -> FALSE
                  [] b1.state = StateHalfOpen -> b1.successCount < b1.halfOpenLimit
                  [] OTHER                    -> FALSE ]

\* a recordRequest that counts nothing
recordRequest_Uncounted(b) == b

recordRequest(b) == [b EXCEPT !.totalRequests = @ + 1]

recordFailure_StrictThreshold(b, clock) ==
    LET b1 == [b EXCEPT !.totalFailures = @ + 1, !.failureCount = @ + 1,
                        !.lastFailureTime = clock]
    IN CASE b1.state = StateClosed ->
              IF b1.failureCount > b1.failureThreshold
              THEN transitionToOpen(b1, clock) ELSE b1
         [] b1.state = StateHalfOpen -> transitionToOpen(b1, clock)
         [] OTHER -> b1

recordFailure(b, clock) ==
    LET b1 == [b EXCEPT !.totalFailures = @ + 1, !.failureCount = @ + 1,
                        !.lastFailureTime = clock]
    IN CASE b1.state = StateClosed ->
              IF b1.failureCount >= b1.failureThreshold
              THEN transitionToOpen(b1, clock) ELSE b1
         [] b1.state = StateHalfOpen -> transitionToOpen(b1, clock)
         [] OTHER -> b1

\* a success that clears the failures counted in the closed state
recordSuccess_ResetsFailures(b, clock) ==
    LET b1 == [b EXCEPT !.totalSuccesses = @ + 1, !.successCount = @ + 1,
                        !.failureCount = IF b.state = StateClosed THEN 0 ELSE @]
    IN IF b1.state = StateHalfOpen /\ b1.successCount >= b1.halfOpenLimit
       THEN transitionToClosed(b1, clock)
       ELSE b1

recordSuccess_StrictLimit(b, clock) ==
    LET b1 == [b EXCEPT !.totalSuccesses = @ + 1, !.successCount = @ + 1]
    IN IF b1.state = StateHalfOpen /\ b1.successCount > b1.halfOpenLimit
       THEN transitionToClosed(b1, clock)
       ELSE b1

recordSuccess(b, clock) ==
    LET b1 == [b EXCEPT !.totalSuccesses = @ + 1, !.successCount = @ + 1]
    IN IF b1.state = StateHalfOpen /\ b1.successCount >= b1.halfOpenLimit
       THEN transitionToClosed(b1, clock)
       ELSE b1

getState(b) == b.state

\* CircuitBreakerError{State, Msg: "circuit breaker is open"}
CircuitBreakerError(state) == [kind |-> "CircuitBreakerError", State |-> state]

IsCircuitBreakerError(err) == err.kind = "CircuitBreakerError"

\* what Execute returned: nothing yet, nil, the error of fn, or the rejection
NoReturn == [kind |-> "none", State |-> "-"]
NilError == [kind |-> "nil", State |-> "-"]
FnError == [kind |-> "error", State |-> "-"]

(***************************************************************************)
(* URLs.  url.Parse and ValidateURL on the URLs the model submits.         *)
(***************************************************************************)
\* url.Parse(raw): err is TRUE when Parse returns (nil, error)
Parse(raw) ==
    CASE raw = "http://h1/a" -> [err |-> FALSE, Scheme |-> "http", Host |-> "h1"]
      [] raw = "http://h2/b" -> [err |-> FALSE, Scheme |-> "http", Host |-> "h2"]
      [] raw = "http://h1/p2" -> [err |-> FALSE, Scheme |-> "http", Host |-> "h1"]
      [] raw = "http://h1/p3" -> [err |-> FALSE, Scheme |-> "http", Host |-> "h1"]
      [] raw = "ftp://h1/f"  -> [err |-> FALSE, Scheme |-> "ftp",  Host |-> "h1"]
      [] raw = "h2/x"        -> [err |-> FALSE, Scheme |-> "",     Host |-> ""]
      [] raw = ""            -> [err |-> FALSE, Scheme |-> "",     Host |-> ""]
      [] raw = "http:///p"   -> [err |-> FALSE, Scheme |-> "http", Host |-> ""]
      [] OTHER               -> [err |-> TRUE,  Scheme |-> "",     Host |-> ""]

\* a URL that url.Parse rejects (invalid percent escape)
UnparseableURL == "%zz"

\* ValidateURL: TRUE when it returns nil
ValidateURL(raw) ==
    LET p == Parse(raw)
    IN /\ raw # ""
       /\ ~p.err
       /\ p.Scheme # ""
       /\ p.Host # ""
       /\ p.Scheme \in {"http", "https"}

Hosts == {"h1", "h2", ""}

\* Config.DomainRateLimit: the hosts with a per-host limiter
HasDomainLimit(host) == host = "h1"

\* the configurations of the semaphores: NewScraper gives rateLimiter the
\* capacity MaxConcurrent and the limiter of "h1" the capacity DomainLimit
\* the configuration with the largest capacities
WidestConfig ==
    [MaxConcurrent |-> MaxConcurrent, DomainLimit |-> DomainLimit,
     RetryAttempts |-> MaxRetryAttempts, RetryDelay |-> MaxRetryDelay,
     CircuitBreakerThreshold |-> MaxRetryThreshold,
     CircuitBreakerTimeout |-> MaxResetTimeout, MaxPages |-> MaxPages]

Configs ==
    { [WidestConfig EXCEPT !.MaxConcurrent = m, !.DomainLimit = d] :
         m \in 1..MaxConcurrent, d \in 1..DomainLimit }

\* the next_url values the headless strategy may report
NextURLs == {"", "http://h1/a"}

(***************************************************************************)
(* HTTP requests to POST /scrape.                                          *)
(***************************************************************************)
ScrapeRequest(urls, siteURL) ==
    [method |-> "POST", json |-> TRUE, URLs |-> urls, SiteURL |-> siteURL]

NoRequest == [method |-> "-", json |-> FALSE, URLs |-> <<>>, SiteURL |-> ""]

Requests ==
    { ScrapeRequest(<<"http://h1/a">>, ""),
      ScrapeRequest(<<"http://h1/a", "http://h1/a">>, ""),
      ScrapeRequest(<<"http://h2/b", "ftp://h1/f">>, ""),
      ScrapeRequest(<<"h2/x", UnparseableURL>>, ""),
      ScrapeRequest(<<>>, "http://h1/a"),
      ScrapeRequest(<<>>, "http://h2/b"),
      ScrapeRequest(<<>>, ""),
      [method |-> "POST", json |-> FALSE, URLs |-> <<>>, SiteURL |-> ""],
      [method |-> "GET", json |-> TRUE, URLs |-> <<>>, SiteURL |-> ""] }

\* the number of URLs a request can lead to fetch
URLCount(r) == IF r.SiteURL # "" THEN MaxPages ELSE Len(r.URLs)

\* the URLs asked for by the requests received so far
RECURSIVE SubmittedURLs(_)
SubmittedURLs(n) == IF n = 0 THEN 0 ELSE URLCount(req[n]) + SubmittedURLs(n - 1)

(***************************************************************************)
(* ScrapedData and ScrapingJob.                                            *)
(***************************************************************************)
ScrapedData(url, title, error, nextURL) ==
    [URL |-> url, Title |-> title, Error |-> error, NextURL |-> nextURL]

\* the clock readings of the job pipeline
Times == 0..MaxJobTime

\* time.Now(): a reading t not earlier than the previous reading
TimeNow(t) == t >= now /\ now' = t

\* a time.Time value: its wall clock reading, and whether it carries the
\* reading of the process's monotonic clock, as the values of time.Now() do
TimeValue(t) == [wall |-> t, mono |-> TRUE]

\* a nil *time.Time
NilTime == [wall |-> ZeroTime, mono |-> FALSE]

\* the job object HandleScrape builds (api.go 99-106); Results is left nil,
\* which the model writes <<>>
NewJob(id, clock) ==
    [ ID |-> id, Status |-> "pending", Results |-> <<>>,
      CreatedAt |-> TimeValue(clock),
      StartedAt |-> NilTime, CompletedAt |-> NilTime, Progress |-> 0 ]

NoJob == [ ID |-> 0, Status |-> "absent", Results |-> <<>>, CreatedAt |-> NilTime,
           StartedAt |-> NilTime, CompletedAt |-> NilTime, Progress |-> 0 ]

(***************************************************************************)
(* encoding/json on a ScrapingJob (storage.go 142, 172).  A JSON object is *)
(* a function from the keys it has to their values.                        *)
(***************************************************************************)
\* the model's strings write a byte that is no part of a valid UTF-8
\* encoding (the 0xE9 of a Latin-1 page) as "^" and the replacement
\* character U+FFFD as "?"
InvalidByte == "^"

ReplacementChar == "?"

\* the characters of s at the positions a..b with every invalid byte
\* replaced by U+FFFD; the range is halved so that the evaluation nests
\* only as deep as the logarithm of its length
RECURSIVE ValidFrom(_, _, _)
ValidFrom(s, a, b) ==
    IF a > b THEN ""
    ELSE IF a = b
         THEN IF SubSeq(s, a, a) = InvalidByte THEN ReplacementChar
                                               ELSE SubSeq(s, a, a)
         ELSE LET mid == (a + b) \div 2
              IN ValidFrom(s, a, mid) \o ValidFrom(s, mid + 1, b)

\* json.Marshal of a string: invalid UTF-8 is coerced to U+FFFD
ToValidUTF8(s) == ValidFrom(s, 1, Len(s))

\* time.Time.MarshalJSON: the RFC 3339 text of the wall clock reading; the
\* monotonic clock reading is not written
FormatTime(t) == t.wall

\* time.Time.UnmarshalJSON: the time of the text, with no monotonic reading
ParseTime(text) == [wall |-> text, mono |-> FALSE]

\* a JSON object without any key
EmptyObject == [k \in {} |-> 0]

\* a field tagged omitempty: the key is left out when the value is empty
OmitEmpty(key, value, isEmpty) == IF isEmpty THEN EmptyObject ELSE key :> value

\* json.Marshal of a ScrapedData (main.go 17-25)
MarshalData(d) ==
    ("url" :> ToValidUTF8(d.URL)) @@ ("title" :> ToValidUTF8(d.Title))
       @@ OmitEmpty("error", ToValidUTF8(d.Error), d.Error = "")
       @@ OmitEmpty("next_url", ToValidUTF8(d.NextURL), d.NextURL = "")

\* json.Unmarshal into a ScrapedData: a key that is missing leaves the zero
\* value of its field
UnmarshalData(o) ==
    ScrapedData(o["url"], o["title"],
                IF "error" \in DOMAIN o THEN o["error"] ELSE "",
                IF "next_url" \in DOMAIN o THEN o["next_url"] ELSE "")

\* json.Marshal of a ScrapingJob (api.go 48-58): the JSON object stored
\* under job:<id>.  An empty Results is the nil slice (api.go 177, main.go
\* 309, 364 declare it with var and only append): the program builds no
\* empty slice that is not nil, so the nil slice that comes back for the
\* key left out is the value that went in.
Marshal(j) ==
    ("id" :> j.ID) @@ ("status" :> ToValidUTF8(j.Status))
       @@ OmitEmpty("results",
                    [i \in 1..Len(j.Results) |-> MarshalData(j.Results[i])],
                    Len(j.Results) = 0)
       @@ ("created_at" :> FormatTime(j.CreatedAt))
       @@ OmitEmpty("started_at", FormatTime(j.StartedAt), j.StartedAt = NilTime)
       @@ OmitEmpty("completed_at", FormatTime(j.CompletedAt),
                    j.CompletedAt = NilTime)
       @@ ("progress" :> j.Progress)

\* json.Unmarshal into a new ScrapingJob (storage.go 172): a key that is
\* missing leaves the nil slice or the nil pointer
UnmarshalJob(o) ==
    [ ID |-> o["id"], Status |-> o["status"],
      Results |-> IF "results" \in DOMAIN o
                  THEN [i \in 1..Len(o["results"]) |-> UnmarshalData(o["results"][i])]
                  ELSE <<>>,
      CreatedAt |-> ParseTime(o["created_at"]),
      StartedAt |-> IF "started_at" \in DOMAIN o
                    THEN ParseTime(o["started_at"]) ELSE NilTime,
      CompletedAt |-> IF "completed_at" \in DOMAIN o
                      THEN ParseTime(o["completed_at"]) ELSE NilTime,
      Progress |-> o["progress"] ]

(***************************************************************************)
(* The job store.                                                          *)
(***************************************************************************)
\* storage.go 148: the expiry SaveJob gives the key, 24*time.Hour, with the
\* day as the unit of the clocks of Spec and SpecStore
JobTTL == 1

\* Redis holds nothing under a key
NoKey == [data |-> EmptyObject, exp |-> 0]

\* RedisStorage.SaveJob, lines 142-151: json.Marshal, then SET job:<id>
\* with the expiry of JobTTL from the time t of the command; the keys after
\* the command, which fails or not
RedisSet(kv, j, t, failed) ==
    IF failed THEN kv
    ELSE [kv EXCEPT ![j.ID] = [data |-> Marshal(j), exp |-> t + JobTTL]]

\* GET job:<id> at time t: the value, or NoKey (redis.Nil) when the key
\* was never set, was deleted or has expired
RedisGet(kv, id, t) == IF t < kv[id].exp THEN kv[id] ELSE NoKey

\* RedisStorage.SaveJob, lines 154-157: SADD jobs:all <id>, a round trip of
\* its own; the set after the command, which fails or not
RedisSAdd(all, id, failed) == IF failed THEN all ELSE all \cup {id}

\* a key of m.jobs that has no entry
NoPointer == 0

\* the pointer job that SaveJob is given: the job objects are numbered by
\* their slot, which is the ID HandleScrape gives them
PointerTo(j) == j.ID

\* NewInMemoryStorage: make(map[string]*ScrapingJob)
EmptyMap == [id \in Jobs |-> NoPointer]

\* InMemoryStorage.SaveJob: m.jobs[job.ID] = job
MemSaveJob(m, j) == [m EXCEPT ![j.ID] = PointerTo(j)]

\* whether a command sent to the store can fail: a Redis command can, the
\* in-memory map returns no error
CommandFails == IF storageKind = "redis" THEN BOOLEAN ELSE {FALSE}

\* Storage.SaveJob up to the return of its first command.  next is what the
\* caller does then: "nil" (the call returned nil), "err" (it returned the
\* error of the SET) or "sadd" (RedisStorage.SaveJob still has its SADD to
\* send); t is the time of the command
SaveJob(j, t, failed, next) ==
    IF storageKind = "redis"
    THEN /\ redisKV' = RedisSet(redisKV, j, t, failed)
         /\ next = (IF failed THEN "err" ELSE "sadd")
         /\ UNCHANGED <<memJobs, redisAll>>
    ELSE /\ memJobs' = MemSaveJob(memJobs, j)
         /\ next = "nil"
         /\ UNCHANGED <<redisKV, redisAll>>

\* RedisStorage.SaveJob, lines 154-159: the SADD and the return; the call
\* returns an error exactly when the SADD failed
SaveJobSAdd(id, failed) ==
    /\ redisAll' = RedisSAdd(redisAll, id, failed)
    /\ UNCHANGED <<memJobs, redisKV>>

\* an update that stores nothing for an id the store has no record of
UpdateJob_ExistingOnly(j, t, failed, next) ==
    IF (IF storageKind = "redis" THEN RedisGet(redisKV, j.ID, t) = NoKey
        ELSE memJobs[j.ID] = NoPointer)
    THEN next = "nil" /\ ~failed /\ UNCHANGED <<memJobs, redisKV, redisAll>>
    ELSE SaveJob(j, t, failed, next)

\* Storage.UpdateJob is SaveJob (storage.go 181-183, 274-276)
UpdateJob(j, t, failed, next) == SaveJob(j, t, failed, next)

\* Storage.GetJob: the record a reader obtains (NoJob: "job not found").
\* RedisStorage.GetJob (storage.go 163-178) unmarshals what GET job:<id>
\* returns.  The in-memory store hands out the pointer it was given: the
\* live object.
GetJob(id) ==
    IF storageKind = "redis"
    THEN IF RedisGet(redisKV, id, now) = NoKey
         THEN NoJob ELSE UnmarshalJob(RedisGet(redisKV, id, now).data)
    ELSE IF memJobs[id] # NoPointer THEN job[memJobs[id]] ELSE NoJob

\* the record GetJob returns for a record the store was given and holds:
\* its JSON round trip in the Redis store, the object itself in memory
Stored(rec) == IF storageKind = "redis" THEN UnmarshalJob(Marshal(rec)) ELSE rec
(***************************************************************************)
(* Spec: the API handler HandleScrape (api.go 80-128).                     *)
(***************************************************************************)
\* HandleScrape up to the first command of SaveJob: method check, decoding,
\* validation, the new job, and the SET of the Redis store or the whole
\* write of the in-memory store.  Job slots are numbered in the order their
\* requests arrive.
HandleScrape(j) ==
    /\ ~crashed
    /\ hpc[j] = "idle"
    /\ \A k \in 1..(j - 1) : hpc[k] # "idle"
    /\ \E r \in Requests :
          /\ SubmittedURLs(NumJobs) + URLCount(r) <= MaxURLs
          /\ req' = [req EXCEPT ![j] = r]
          /\ fpc' = [fpc EXCEPT ![j] = [i \in 0..Len(r.URLs) |-> "none"]]
          /\ CASE r.method # "POST" ->
                    /\ resp' = [resp EXCEPT ![j] = 405]
                    /\ hpc' = [hpc EXCEPT ![j] = "done"]
                    /\ UNCHANGED <<now, job, storeVars>>
               [] r.method = "POST" /\ ~r.json ->
                    /\ resp' = [resp EXCEPT ![j] = 400]
                    /\ hpc' = [hpc EXCEPT ![j] = "done"]
                    /\ UNCHANGED <<now, job, storeVars>>
               [] r.method = "POST" /\ r.json /\ r.SiteURL = "" /\ Len(r.URLs) = 0 ->
                    /\ resp' = [resp EXCEPT ![j] = 400]
                    /\ hpc' = [hpc EXCEPT ![j] = "done"]
                    /\ UNCHANGED <<now, job, storeVars>>
               [] OTHER ->
                    \E t \in Times, failed \in CommandFails,
                       next \in {"nil", "err", "sadd"} :
                          /\ TimeNow(t)
                          /\ job' = [job EXCEPT ![j] = NewJob(j, t)]
                          /\ SaveJob(NewJob(j, t), t, failed, next)
                          /\ CASE next = "err" ->
                                    /\ resp' = [resp EXCEPT ![j] = 500]
                                    /\ hpc' = [hpc EXCEPT ![j] = "done"]
                               [] next = "sadd" ->
                                    /\ hpc' = [hpc EXCEPT ![j] = "save_sadd"]
                                    /\ UNCHANGED resp
                               [] OTHER ->
                                    /\ hpc' = [hpc EXCEPT ![j] = "saved"]
                                    /\ UNCHANGED resp
    /\ UNCHANGED <<cbVars, retryVars, confVars, clientVars, crashed, epc,
                   resultsChan, chanClosed, results, closer, rateLimiter,
                   domainLimiters, wg, site>>

\* HandleScrape inside RedisStorage.SaveJob (storage.go 154-159): the SADD;
\* lines 110-113 of the handler answer 500 when the call returns its error
HandleScrapeSAdd(j) ==
    /\ ~crashed
    /\ hpc[j] = "save_sadd"
    /\ \E failed \in CommandFails :
          /\ SaveJobSAdd(j, failed)
          /\ IF failed
             THEN /\ resp' = [resp EXCEPT ![j] = 500]
                  /\ hpc' = [hpc EXCEPT ![j] = "done"]
             ELSE /\ hpc' = [hpc EXCEPT ![j] = "saved"]
                  /\ UNCHANGED resp
    /\ UNCHANGED <<now, cbVars, retryVars, confVars, clientVars, crashed,
                   req, job, epc, scraperVars>>

\* HandleScrape, line 116: go h.executeScrapingJob(job)
HandleStartJob(j) ==
    /\ ~crashed
    /\ hpc[j] = "saved"
    /\ hpc' = [hpc EXCEPT ![j] = "started"]
    /\ epc' = [epc EXCEPT ![j] = "set_running"]
    /\ UNCHANGED <<now, cbVars, retryVars, confVars, clientVars, crashed, storeVars,
                   req, resp, job, scraperVars>>

\* HandleScrape, lines 119-127: the 202 response with the job id
HandleAccepted(j) ==
    /\ ~crashed
    /\ hpc[j] = "started"
    /\ resp' = [resp EXCEPT ![j] = 202]
    /\ hpc' = [hpc EXCEPT ![j] = "done"]
    /\ UNCHANGED <<now, cbVars, retryVars, confVars, clientVars, crashed, storeVars,
                   req, job, epc, scraperVars>>

(***************************************************************************)
(* executeScrapingJob (api.go 165-196), one action per write to the job    *)
(* object and per store call.                                              *)
(***************************************************************************)
\* line 169: job.Status = "running"
ExecSetRunning(j) ==
    /\ ~crashed
    /\ epc[j] = "set_running"
    /\ job' = [job EXCEPT ![j].Status = "running"]
    /\ epc' = [epc EXCEPT ![j] = "set_started_at"]
    /\ UNCHANGED <<now, cbVars, retryVars, confVars, clientVars, crashed, storeVars,
                   req, hpc, resp, scraperVars>>

\* lines 170-171: job.StartedAt = &now
ExecSetStartedAt(j) ==
    /\ ~crashed
    /\ epc[j] = "set_started_at"
    /\ \E t \in Times : TimeNow(t) /\ job' = [job EXCEPT ![j].StartedAt = TimeValue(t)]
    /\ epc' = [epc EXCEPT ![j] = "update_running"]
    /\ UNCHANGED <<cbVars, retryVars, confVars, clientVars, crashed, storeVars,
                   req, hpc, resp, scraperVars>>

\* lines 176-184: the call of ScrapeSite or ScrapeURLs, which set up their
\* locals
ExecStartScrape(j) ==
    IF req[j].SiteURL # ""
    THEN /\ epc' = [epc EXCEPT ![j] = "site_loop"]
         /\ site' = [site EXCEPT ![j] = [queue |-> <<req[j].SiteURL>>,
                                         visited |-> {}, pages |-> 0,
                                         cur |-> "", last |-> ScrapedData("", "", "", "")]]
    ELSE /\ epc' = [epc EXCEPT ![j] = "spawning"]
         /\ UNCHANGED site

\* line 172: UpdateJob up to the return of its first command (the SET of
\* the Redis store, the whole write of the in-memory store); when the call
\* has returned (an error is only printed) the scrape starts
ExecUpdateRunning(j) ==
    /\ ~crashed
    /\ epc[j] = "update_running"
    /\ \E failed \in CommandFails, next \in {"nil", "err", "sadd"} :
          /\ UpdateJob(job[j], now, failed, next)
          /\ IF next = "sadd"
             THEN /\ epc' = [epc EXCEPT ![j] = "update_running_sadd"]
                  /\ UNCHANGED site
             ELSE ExecStartScrape(j)
    /\ passedStart' = [passedStart EXCEPT ![j] = job[j].StartedAt]
    /\ UNCHANGED <<now, cbVars, retryVars, confVars, clientRest, crashed,
                   req, hpc, resp, job, fpc, resultsChan, chanClosed, results,
                   closer, rateLimiter, domainLimiters, wg>>

\* line 172, inside RedisStorage.SaveJob (storage.go 154-159): the SADD; the
\* call returns (an error is only printed) and the scrape starts
ExecUpdateRunningSAdd(j) ==
    /\ ~crashed
    /\ epc[j] = "update_running_sadd"
    /\ \E failed \in CommandFails : SaveJobSAdd(j, failed)
    /\ ExecStartScrape(j)
    /\ UNCHANGED <<now, cbVars, retryVars, confVars, clientVars, crashed,
                   req, hpc, resp, job, fpc, resultsChan, chanClosed, results,
                   closer, rateLimiter, domainLimiters, wg>>

\* line 187: job.Results = results
ExecSetResults(j) ==
    /\ ~crashed
    /\ epc[j] = "set_results"
    /\ job' = [job EXCEPT ![j].Results = results[j]]
    /\ epc' = [epc EXCEPT ![j] = "set_progress"]
    /\ UNCHANGED <<now, cbVars, retryVars, confVars, clientVars, crashed, storeVars,
                   req, hpc, resp, scraperVars>>

\* line 188: job.Progress = 100
ExecSetProgress(j) ==
    /\ ~crashed
    /\ epc[j] = "set_progress"
    /\ job' = [job EXCEPT ![j].Progress = 100]
    /\ epc' = [epc EXCEPT ![j] = "set_now"]
    /\ UNCHANGED <<now, cbVars, retryVars, confVars, clientVars, crashed, storeVars,
                   req, hpc, resp, scraperVars>>

\* line 189: now = time.Now() assigns to the local variable that
\* job.StartedAt points to since line 171 (job.StartedAt = &now): the
\* started_at of the job object becomes the new reading
ExecSetNow(j) ==
    /\ ~crashed
    /\ epc[j] = "set_now"
    /\ \E t \in Times : TimeNow(t) /\ job' = [job EXCEPT ![j].StartedAt = TimeValue(t)]
    /\ epc' = [epc EXCEPT ![j] = "set_completed_at"]
    /\ UNCHANGED <<cbVars, retryVars, confVars, clientVars, crashed, storeVars,
                   req, hpc, resp, scraperVars>>

\* line 190: job.CompletedAt = &now, the pointer job.StartedAt holds: the
\* two fields read the same variable
ExecSetCompletedAt(j) ==
    /\ ~crashed
    /\ epc[j] = "set_completed_at"
    /\ job' = [job EXCEPT ![j].CompletedAt = job[j].StartedAt]
    /\ epc' = [epc EXCEPT ![j] = "set_completed"]
    /\ UNCHANGED <<now, cbVars, retryVars, confVars, clientVars, crashed, storeVars,
                   req, hpc, resp, scraperVars>>

\* line 191: job.Status = "completed"
ExecSetCompleted(j) ==
    /\ ~crashed
    /\ epc[j] = "set_completed"
    /\ job' = [job EXCEPT ![j].Status = "completed"]
    /\ epc' = [epc EXCEPT ![j] = "update_completed"]
    /\ UNCHANGED <<now, cbVars, retryVars, confVars, clientVars, crashed, storeVars,
                   req, hpc, resp, scraperVars>>

\* lines 193-195: UpdateJob up to the return of its first command; when the
\* call has returned (an error is only printed) the goroutine ends
ExecUpdateCompleted(j) ==
    /\ ~crashed
    /\ epc[j] = "update_completed"
    /\ \E failed \in CommandFails, next \in {"nil", "err", "sadd"} :
          /\ UpdateJob(job[j], now, failed, next)
          /\ epc' = [epc EXCEPT ![j] =
                       IF next = "sadd" THEN "update_completed_sadd" ELSE "done"]
    /\ UNCHANGED <<now, cbVars, retryVars, confVars, clientVars, crashed,
                   req, hpc, resp, job, scraperVars>>

\* line 193, inside RedisStorage.SaveJob (storage.go 154-159): the SADD; the
\* call returns and the goroutine ends
ExecUpdateCompletedSAdd(j) ==
    /\ ~crashed
    /\ epc[j] = "update_completed_sadd"
    /\ \E failed \in CommandFails : SaveJobSAdd(j, failed)
    /\ epc' = [epc EXCEPT ![j] = "done"]
    /\ UNCHANGED <<now, cbVars, retryVars, confVars, clientVars, crashed,
                   req, hpc, resp, job, scraperVars>>
(***************************************************************************)
(* The Scraper (main.go): fetches, semaphores, WaitGroup, ScrapeURLs and   *)
(* ScrapeSite.                                                             *)
(***************************************************************************)
\* the fetches of a job: 0 is the synchronous fetch of ScrapeSite, i >= 1
\* the goroutine started for URLs[i]
FetchIds == 0..MaxURLs

\* the URL fetch i of job j was started with
FetchURL(j, i) == IF i = 0 THEN site[j].cur ELSE req[j].URLs[i]

\* what one strategy.Execute call, retries included, ends with: a result
\* (NextURL as the headless strategy found it; the HTTP strategy always
\* reports "") or an error
StrategyOutcomes ==
    { [ok |-> TRUE, title |-> "x", next |-> n] : n \in NextURLs }
        \cup { [ok |-> FALSE, title |-> "", next |-> ""] }

\* the outcomes given to fetch i of a job: the page fetches of ScrapeSite
\* (i = 0) read NextURL; nothing reads the NextURL of a batch result, and
\* the batch fetches are given the results without one
OutcomesOf(i) ==
    IF i = 0 THEN StrategyOutcomes ELSE {o \in StrategyOutcomes : o.next = ""}

\* doScrape (main.go 85-178): the ScrapedData it returns for a URL.  An
\* invalid URL never reaches the strategy; otherwise the retry loop ends
\* with the strategy's result or with lastErr in Error.
doScrape(url, outcome) ==
    IF ~ValidateURL(url) THEN ScrapedData(url, "", "invalid URL", "")
    ELSE IF outcome.ok THEN ScrapedData(url, outcome.title, "", outcome.next)
    ELSE ScrapedData(url, "", "failed", "")

\* sync.WaitGroup.Add(1): the counter after the call
wgAdd(w) == [w EXCEPT !.v = @ + 1]

\* sync.WaitGroup.Done: the counter after the call; reaching zero with
\* waiters resets the state and wakes every waiter
wgDone(w) == IF w.v - 1 = 0 /\ w.w > 0 THEN [v |-> 0, w |-> 0]
                                       ELSE [w EXCEPT !.v = @ - 1]

\* the goroutines blocked in s.wg.Wait() that a Done wakes
wgWake(w, cl) ==
    [k \in Jobs |-> IF w.v - 1 = 0 /\ w.w > 0 /\ cl[k] = "blocked"
                    THEN "woken" ELSE cl[k]]

\* a send on a buffered channel that holds len elements proceeds only
\* while the buffer, of capacity cap, is not full
CanSend_PastFull(len, cap) == len <= cap

CanSend(len, cap) == len < cap

\* acquireRateLimiters, line 183: s.rateLimiter <- struct{}{} blocks while
\* the channel is full; lines 186-187: url.Parse and parsedURL.Host, a nil
\* dereference when Parse failed: the goroutine panics with the slot taken
\* (releaseRateLimiters is not deferred yet).  The goroutine of scrapeURL
\* has s.wg.Done() deferred; the fetch of ScrapeSite runs in the executor,
\* which has deferred nothing the model follows.  Line 193: whether a
\* per-host limiter is to be acquired next
AcquireGlobal(j, i) ==
    /\ ~crashed
    /\ i \in DOMAIN fpc[j]
    /\ fpc[j][i] = "start"
    /\ CanSend(rateLimiter, config.MaxConcurrent)
    /\ rateLimiter' = rateLimiter + 1
    /\ LET p == Parse(FetchURL(j, i))
       IN IF p.err
          THEN fpc' = [fpc EXCEPT ![j][i] =
                          IF i >= 1 THEN "panicking" ELSE "panic_exit"]
          ELSE fpc' = [fpc EXCEPT ![j][i] =
                          IF HasDomainLimit(p.Host) THEN "want_domain"
                                                    ELSE "acquired"]
    /\ UNCHANGED <<now, cbVars, retryVars, confVars, clientVars, crashed, storeVars,
                   apiVars, resultsChan, chanClosed, results, closer,
                   domainLimiters, wg, site>>

\* scrapeURL, line 71, in the panicking goroutine: the deferred
\* s.wg.Done() runs while the stack unwinds
PanicDeferred(j, i) ==
    /\ ~crashed
    /\ i \in DOMAIN fpc[j]
    /\ fpc[j][i] = "panicking"
    /\ wg' = wgDone(wg)
    /\ closer' = wgWake(wg, closer)
    /\ fpc' = [fpc EXCEPT ![j][i] = "panic_exit"]
    /\ UNCHANGED <<now, cbVars, retryVars, confVars, clientVars, crashed, storeVars,
                   apiVars, resultsChan, chanClosed, results, rateLimiter,
                   domainLimiters, site>>

\* the panic has reached the top of the goroutine's stack with no recover:
\* the runtime prints it and the process exits.  Until this step the other
\* goroutines go on.
PanicExit(j, i) ==
    /\ ~crashed
    /\ i \in DOMAIN fpc[j]
    /\ fpc[j][i] = "panic_exit"
    /\ crashed' = TRUE
    /\ fpc' = [fpc EXCEPT ![j][i] = "panicked"]
    /\ UNCHANGED <<now, cbVars, retryVars, confVars, clientVars, storeVars,
                   apiVars, resultsChan, chanClosed, results, closer,
                   rateLimiter, domainLimiters, wg, site>>

\* acquireRateLimiters, line 194: domainLimiter <- struct{}{}
AcquireDomain(j, i) ==
    /\ ~crashed
    /\ i \in DOMAIN fpc[j]
    /\ fpc[j][i] = "want_domain"
    /\ LET h == Parse(FetchURL(j, i)).Host
       IN /\ CanSend(domainLimiters[h], config.DomainLimit)
          /\ domainLimiters' = [domainLimiters EXCEPT ![h] = @ + 1]
    /\ fpc' = [fpc EXCEPT ![j][i] = "acquired"]
    /\ UNCHANGED <<now, cbVars, retryVars, confVars, clientVars, crashed, storeVars,
                   apiVars, resultsChan, chanClosed, results, closer,
                   rateLimiter, wg, site>>

\* scrapeURL, lines 78-81: doScrape, then the result goes to the job's
\* channel (its buffer holds one slot per URL); scrapeURLSync, line 382:
\* doScrape, the result is returned to ScrapeSite
DoScrape(j, i) ==
    /\ ~crashed
    /\ i \in DOMAIN fpc[j]
    /\ fpc[j][i] = "acquired"
    /\ \E outcome \in OutcomesOf(i) :
          LET scraped == doScrape(FetchURL(j, i), outcome)
          IN IF i = 0
             THEN /\ site' = [site EXCEPT ![j].last = scraped]
                  /\ UNCHANGED resultsChan
             ELSE /\ resultsChan' = [resultsChan EXCEPT ![j] = Append(@, scraped)]
                  /\ UNCHANGED site
    /\ fpc' = [fpc EXCEPT ![j][i] = "sent"]
    /\ UNCHANGED <<now, cbVars, retryVars, confVars, clientVars, crashed, storeVars,
                   apiVars, chanClosed, results, closer, rateLimiter,
                   domainLimiters, wg>>

\* a release that leaves the per-host slot taken
releaseDomain_Keep(limiters, h) == limiters

\* releaseRateLimiters, lines 203-213: the host's limiter, if the host has
\* one, gets its slot back
releaseDomain(limiters, h) ==
    IF HasDomainLimit(h) THEN [limiters EXCEPT ![h] = @ - 1] ELSE limiters

\* releaseRateLimiters (deferred), line 201: <-s.rateLimiter; lines 203-209:
\* whether the host has a limiter to release next
ReleaseGlobal(j, i) ==
    /\ ~crashed
    /\ i \in DOMAIN fpc[j]
    /\ fpc[j][i] = "sent"
    /\ rateLimiter' = rateLimiter - 1
    /\ fpc' = [fpc EXCEPT ![j][i] =
                 IF HasDomainLimit(Parse(FetchURL(j, i)).Host)
                 THEN "release_domain" ELSE "released"]
    /\ UNCHANGED <<now, cbVars, retryVars, confVars, clientVars, crashed, storeVars,
                   apiVars, resultsChan, chanClosed, results, closer, wg, site,
                   domainLimiters>>

\* releaseRateLimiters, lines 211-213: <-domainLimiter
ReleaseDomain(j, i) ==
    /\ ~crashed
    /\ i \in DOMAIN fpc[j]
    /\ fpc[j][i] = "release_domain"
    /\ domainLimiters' = releaseDomain(domainLimiters, Parse(FetchURL(j, i)).Host)
    /\ fpc' = [fpc EXCEPT ![j][i] = "released"]
    /\ UNCHANGED <<now, cbVars, retryVars, confVars, clientVars, crashed, storeVars,
                   apiVars, resultsChan, chanClosed, results, closer, wg, site,
                   rateLimiter>>

\* scrapeURL, line 71 (deferred): s.wg.Done()
FetchDone(j, i) ==
    /\ ~crashed
    /\ i \in DOMAIN fpc[j]
    /\ i >= 1
    /\ fpc[j][i] = "released"
    /\ wg' = wgDone(wg)
    /\ closer' = wgWake(wg, closer)
    /\ fpc' = [fpc EXCEPT ![j][i] = "done"]
    /\ UNCHANGED <<now, cbVars, retryVars, confVars, clientVars, crashed, storeVars,
                   apiVars, resultsChan, chanClosed, results, rateLimiter,
                   domainLimiters, site>>

\* ScrapeURLs, lines 297-300: s.wg.Add(1); go s.scrapeURL(...) for the next
\* URL.  Add panics when it finds waiters on a counter it raises from zero.
SpawnFetch(j) ==
    /\ ~crashed
    /\ epc[j] = "spawning"
    /\ \E i \in 1..Len(req[j].URLs) :
          /\ fpc[j][i] = "none"
          /\ \A k \in 1..(i - 1) : fpc[j][k] # "none"
          /\ wg' = wgAdd(wg)
          /\ IF wg.w # 0 /\ wg.v = 0
             THEN crashed' = TRUE /\ UNCHANGED fpc
             ELSE UNCHANGED crashed /\ fpc' = [fpc EXCEPT ![j][i] = "start"]
    /\ UNCHANGED <<now, cbVars, retryVars, confVars, clientVars, storeVars, apiVars,
                   resultsChan, chanClosed, results, closer, rateLimiter,
                   domainLimiters, site>>

\* ScrapeURLs, lines 303-306: the goroutine that waits and closes is started
StartCloser(j) ==
    /\ ~crashed
    /\ epc[j] = "spawning"
    /\ \A i \in 1..Len(req[j].URLs) : fpc[j][i] # "none"
    /\ closer' = [closer EXCEPT ![j] = "start"]
    /\ epc' = [epc EXCEPT ![j] = "collecting"]
    /\ UNCHANGED <<now, cbVars, retryVars, confVars, clientVars, crashed, storeVars,
                   req, hpc, resp, job, fpc, resultsChan, chanClosed, results,
                   rateLimiter, domainLimiters, wg, site>>

\* line 304, s.wg.Wait(): returns at once on a zero counter (then line 305,
\* close), else registers as a waiter and blocks
CloserWait(j) ==
    /\ ~crashed
    /\ closer[j] = "start"
    /\ IF wg.v = 0
       THEN /\ chanClosed' = [chanClosed EXCEPT ![j] = TRUE]
            /\ closer' = [closer EXCEPT ![j] = "done"]
            /\ UNCHANGED wg
       ELSE /\ wg' = [wg EXCEPT !.w = @ + 1]
            /\ closer' = [closer EXCEPT ![j] = "blocked"]
            /\ UNCHANGED chanClosed
    /\ UNCHANGED <<now, cbVars, retryVars, confVars, clientVars, crashed, storeVars,
                   apiVars, fpc, resultsChan, results, rateLimiter,
                   domainLimiters, site>>

\* s.wg.Wait() after the wake-up: a WaitGroup whose state is no longer zero
\* panics ("WaitGroup is reused before previous Wait has returned");
\* otherwise Wait returns and line 305 closes the channel
CloserWake(j) ==
    /\ ~crashed
    /\ closer[j] = "woken"
    /\ IF wg.v # 0 \/ wg.w # 0
       THEN /\ crashed' = TRUE
            /\ closer' = [closer EXCEPT ![j] = "panicked"]
            /\ UNCHANGED chanClosed
       ELSE /\ chanClosed' = [chanClosed EXCEPT ![j] = TRUE]
            /\ closer' = [closer EXCEPT ![j] = "done"]
            /\ UNCHANGED crashed
    /\ UNCHANGED <<now, cbVars, retryVars, confVars, clientVars, storeVars, apiVars,
                   fpc, resultsChan, results, rateLimiter, domainLimiters,
                   wg, site>>

\* ScrapeURLs, lines 310-312: one result is received and appended
CollectOne(j) ==
    /\ ~crashed
    /\ epc[j] = "collecting"
    /\ resultsChan[j] # <<>>
    /\ results' = [results EXCEPT ![j] = Append(@, Head(resultsChan[j]))]
    /\ resultsChan' = [resultsChan EXCEPT ![j] = Tail(@)]
    /\ UNCHANGED <<now, cbVars, retryVars, confVars, clientVars, crashed, storeVars,
                   apiVars, fpc, chanClosed, closer, rateLimiter,
                   domainLimiters, wg, site>>

\* ScrapeURLs, lines 310-317: the range loop ends on the closed, drained
\* channel and ScrapeURLs returns
CollectEnd(j) ==
    /\ ~crashed
    /\ epc[j] = "collecting"
    /\ resultsChan[j] = <<>>
    /\ chanClosed[j]
    /\ epc' = [epc EXCEPT ![j] = "set_results"]
    /\ UNCHANGED <<now, cbVars, retryVars, confVars, clientVars, crashed, storeVars,
                   req, hpc, resp, job, scraperVars>>

(***************************************************************************)
(* ScrapeSite (main.go 321-371).                                           *)
(***************************************************************************)
\* a loop that goes on at the page limit
MorePages_Inclusive(pageCount, maxPages) == pageCount <= maxPages

\* lines 334 and 354: pageCount < s.config.MaxPages
MorePages(pageCount, maxPages) == pageCount < maxPages

\* a visited test that never finds the URL
alreadyScraped_Never(visited, url) == FALSE

\* line 339: scrapedURLs[url]
alreadyScraped(visited, url) == url \in visited

\* one evaluation of the loop condition (line 334) and, when it holds, the
\* pop, the visited check and the bookkeeping up to the scrapeURLSync call;
\* when it fails, close, collect and return (lines 361-370)
SiteNext(j) ==
    /\ ~crashed
    /\ epc[j] = "site_loop"
    /\ LET s == site[j]
       IN IF s.queue # <<>> /\ MorePages(s.pages, config.MaxPages)
          THEN LET url == Head(s.queue)
               IN IF alreadyScraped(s.visited, url)
                  THEN /\ site' = [site EXCEPT ![j].queue = Tail(s.queue)]
                       /\ UNCHANGED <<epc, fpc, results, resultsChan, chanClosed>>
                  ELSE /\ site' = [site EXCEPT ![j] =
                                     [s EXCEPT !.queue = Tail(s.queue),
                                               !.visited = @ \cup {url},
                                               !.pages = @ + 1,
                                               !.cur = url]]
                       /\ fpc' = [fpc EXCEPT ![j][0] = "start"]
                       /\ epc' = [epc EXCEPT ![j] = "site_fetch"]
                       /\ UNCHANGED <<results, resultsChan, chanClosed>>
          ELSE /\ chanClosed' = [chanClosed EXCEPT ![j] = TRUE]
               /\ results' = [results EXCEPT ![j] = resultsChan[j]]
               /\ resultsChan' = [resultsChan EXCEPT ![j] = <<>>]
               /\ epc' = [epc EXCEPT ![j] = "set_results"]
               /\ UNCHANGED <<site, fpc>>
    /\ UNCHANGED <<now, cbVars, retryVars, confVars, clientVars, crashed, storeVars,
                   req, hpc, resp, job, closer, rateLimiter, domainLimiters, wg>>

\* lines 350-358: the result of scrapeURLSync goes to the channel and its
\* NextURL, if any and if pages remain, to the queue
SiteAfterFetch(j) ==
    /\ ~crashed
    /\ epc[j] = "site_fetch"
    /\ fpc[j][0] = "released"
    /\ LET s == site[j]
       IN /\ resultsChan' = [resultsChan EXCEPT ![j] = Append(@, s.last)]
          /\ site' = [site EXCEPT ![j].queue =
                        IF s.last.NextURL # "" /\ MorePages(s.pages, config.MaxPages)
                        THEN Append(s.queue, s.last.NextURL) ELSE s.queue]
    /\ fpc' = [fpc EXCEPT ![j][0] = "none"]
    /\ epc' = [epc EXCEPT ![j] = "site_loop"]
    /\ UNCHANGED <<now, cbVars, retryVars, confVars, clientVars, crashed, storeVars,
                   req, hpc, resp, job, chanClosed, results, closer,
                   rateLimiter, domainLimiters, wg>>

\* the API server after StartAPIServer: an empty store, no request received,
\* idle scraper (NewScraper: empty semaphores, zero WaitGroup)
InitJobs ==
    /\ crashed = FALSE
    /\ memJobs = EmptyMap
    /\ redisKV = [j \in Jobs |-> NoKey]
    /\ redisAll = {}
    /\ req = [j \in Jobs |-> NoRequest]
    /\ hpc = [j \in Jobs |-> "idle"]
    /\ resp = [j \in Jobs |-> 0]
    /\ job = [j \in Jobs |-> NoJob]
    /\ epc = [j \in Jobs |-> "none"]
    /\ fpc = [j \in Jobs |-> [i \in 0..0 |-> "none"]]
    /\ resultsChan = [j \in Jobs |-> <<>>]
    /\ chanClosed = [j \in Jobs |-> FALSE]
    /\ results = [j \in Jobs |-> <<>>]
    /\ closer = [j \in Jobs |-> "none"]
    /\ rateLimiter = 0
    /\ domainLimiters = [h \in Hosts |-> 0]
    /\ wg = [v |-> 0, w |-> 0]
    /\ site = [j \in Jobs |->
                 [queue |-> <<>>, visited |-> {}, pages |-> 0, cur |-> "",
                  last |-> ScrapedData("", "", "", "")]]

(***************************************************************************)
(* Title extraction (main.go 216-284).  A string is a sequence of tokens,  *)
(* each token a piece of text: a tag, a blank, a run of plain characters   *)
(* or a whole JSON text.                                                   *)
(***************************************************************************)
NoHTMLTitle == <<"No HTML title found">>
MalformedHTMLTitle == <<"Malformed HTML title">>
EmptyHTMLTitle == <<"Empty HTML title">>
InvalidJSON == <<"Invalid JSON">>
NoJSONTitle == <<"JSON response (no title field)">>

HTMLTokens == {"<title>", "<TITLE>", "</title>", " ", "x"}

\* what json.Unmarshal into a map[string]interface{} makes of a JSON text:
\* the members of the object in the order of their sorted keys, str telling
\* whether the value is a JSON string; ok is false for a text that is not
\* one JSON object (an array, a truncated text)
JSONMember(key, str, val) == [key |-> key, str |-> str, val |-> val]

JSONObject(members) == [ok |-> TRUE, members |-> members]

JSONError == [ok |-> FALSE, members |-> <<>>]

JSONTexts ==
    { "{}",
      "{\"title\":\"x\",\"content\":\"c\"}",
      "{\"login\":\"u\"}",
      "{\"a\":\"x\",\"b\":\"y\"}",
      "{\"title\":\"\",\"name\":\"n\"}",
      "{\"title\":1}",
      "{\"title\":\"{\\\"login\\\":\\\"u\\\"}\"}",
      "[{\"title\":\"x\"}]",
      "{\"title\":\"t\"" }

Decode(text) ==
    CASE text = "{}" -> JSONObject(<<>>)
      [] text = "{\"title\":\"x\",\"content\":\"c\"}" ->
            JSONObject(<<JSONMember("content", TRUE, <<"c">>),
                         JSONMember("title", TRUE, <<"x">>)>>)
      [] text = "{\"login\":\"u\"}" ->
            JSONObject(<<JSONMember("login", TRUE, <<"u">>)>>)
      [] text = "{\"a\":\"x\",\"b\":\"y\"}" ->
            JSONObject(<<JSONMember("a", TRUE, <<"x">>),
                         JSONMember("b", TRUE, <<"y">>)>>)
      [] text = "{\"title\":\"\",\"name\":\"n\"}" ->
            JSONObject(<<JSONMember("name", TRUE, <<"n">>),
                         JSONMember("title", TRUE, <<>>)>>)
      [] text = "{\"title\":1}" ->
            JSONObject(<<JSONMember("title", FALSE, <<>>)>>)
      [] text = "{\"title\":\"{\\\"login\\\":\\\"u\\\"}\"}" ->
            JSONObject(<<JSONMember("title", TRUE, <<"{\"login\":\"u\"}">>)>>)
      [] OTHER -> JSONError

\* strings.TrimSpace
RECURSIVE TrimLeft(_)
TrimLeft(s) ==
    IF s # <<>> /\ Head(s) = " " THEN TrimLeft(Tail(s)) ELSE s

RECURSIVE TrimRight(_)
TrimRight(s) ==
    IF s # <<>> /\ s[Len(s)] = " "
    THEN TrimRight(SubSeq(s, 1, Len(s) - 1)) ELSE s

TrimSpace(s) == TrimRight(TrimLeft(s))

\* strings.ToLower, token by token
ToLower(tok) == IF tok = "<TITLE>" THEN "<title>" ELSE tok

\* strings.Index(s, tok): the first position of the token, 0 for Go's -1
Index(s, tok) ==
    LET at == {i \in 1..Len(s) : s[i] = tok}
    IN IF at = {} THEN 0 ELSE CHOOSE i \in at : \A k \in at : i <= k

\* strings.HasPrefix(content, "{") || strings.HasPrefix(content, "[")
HasJSONPrefix(s) == s # <<>> /\ Head(s) \in JSONTexts

\* strings.Contains(contentType, "application/json")
IsJSONContentType(ct) ==
    ct \in {"application/json", "application/json; charset=utf-8"}

\* json.Unmarshal([]byte(jsonStr), &data): blanks around the one JSON value
\* are skipped, anything else around it is an error
Unmarshal(s) ==
    LET t == TrimSpace(s)
    IN IF Len(t) = 1 /\ t[1] \in JSONTexts THEN Decode(t[1]) ELSE JSONError

titleFields == <<"title", "name", "login", "message", "description">>

\* lines 253-284
extractJSONTitle(jsonStr) ==
    LET d == Unmarshal(jsonStr)
        m == d.members
        named(f) == {i \in 1..Len(m) : m[i].key = titleFields[f]
                                        /\ m[i].str /\ m[i].val # <<>>}
        hits == {f \in 1..Len(titleFields) : named(f) # {}}
        texts == {i \in 1..Len(m) : m[i].str /\ m[i].val # <<>>}
    IN IF ~d.ok THEN InvalidJSON
       ELSE IF hits # {}
       THEN LET f == CHOOSE g \in hits : \A h \in hits : g <= h
            IN m[CHOOSE i \in named(f) : TRUE].val
       ELSE IF texts # {}
       THEN LET i == CHOOSE k \in texts : \A h \in texts : k <= h
            IN <<m[i].key, ": ">> \o m[i].val
       ELSE NoJSONTitle

\* lines 229-250
extractHTMLTitle(html) ==
    LET titleStart == Index([i \in 1..Len(html) |-> ToLower(html[i])], "<title>")
        rest == SubSeq(html, titleStart + 1, Len(html))
        titleEnd == Index(rest, "</title>")
        title == TrimSpace(SubSeq(rest, 1, titleEnd - 1))
    IN IF titleStart = 0 THEN NoHTMLTitle
       ELSE IF titleEnd = 0 THEN MalformedHTMLTitle
       ELSE IF title = <<>> THEN EmptyHTMLTitle
       ELSE title

\* lines 217-226
extractTitle(body, ct) ==
    IF IsJSONContentType(ct) \/ HasJSONPrefix(body)
    THEN extractJSONTitle(body)
    ELSE extractHTMLTitle(body)

ContentTypes == {"text/html", "application/json; charset=utf-8", ""}

RECURSIVE SeqsUpTo(_, _)
SeqsUpTo(S, n) ==
    IF n = 0 THEN {<<>>}
    ELSE LET shorter == SeqsUpTo(S, n - 1)
         IN shorter \cup {Append(s, t) : s \in shorter, t \in S}

Bodies == SeqsUpTo(HTMLTokens \cup JSONTexts, MaxBodyLen)

InitTitleIdle ==
    /\ content = <<>>
    /\ contentType = ""
    /\ titles = <<>>

InitCtxIdle == ctxDone = FALSE

(***************************************************************************)
(* doScrape (main.go 85-178): the strategy, its errors, the fetch result.  *)
(***************************************************************************)
\* what the server does with one request: an HTTP status, or a transport
\* failure with the text of its error
Response(status, neterr) == [StatusCode |-> status, neterr |-> neterr]

\* errors.go 69-77: the texts isRetryableError looks for
retryablePatterns ==
    {"timeout", "connection refused", "no route to host",
     "network is unreachable", "connection reset", "broken pipe", "EOF"}

UpperCase == "ABCDEFGHIJKLMNOPQRSTUVWXYZ"
LowerCase == "abcdefghijklmnopqrstuvwxyz"

\* unicode.ToLower on the ASCII capitals
LowerOf ==
    [ch \in { SubSeq(UpperCase, k, k) : k \in 1..Len(UpperCase) } |->
        LET k == CHOOSE k \in 1..Len(UpperCase) : SubSeq(UpperCase, k, k) = ch
        IN SubSeq(LowerCase, k, k)]

\* the characters of s at the positions a..b, in lower case; the range is
\* halved so that the evaluation nests only as deep as the logarithm of
\* its length
RECURSIVE LowerFrom(_, _, _)
LowerFrom(s, a, b) ==
    IF a > b THEN ""
    ELSE IF a = b
         THEN LET ch == SubSeq(s, a, a)
              IN IF ch \in DOMAIN LowerOf THEN LowerOf[ch] ELSE ch
         ELSE LET mid == (a + b) \div 2
              IN LowerFrom(s, a, mid) \o LowerFrom(s, mid + 1, b)

\* strings.ToLower, on ASCII text
StringsToLower(s) == LowerFrom(s, 1, Len(s))

\* strings.Contains
StringsContains(s, substr) ==
    \E i \in 1..(Len(s) - Len(substr) + 1) :
       SubSeq(s, i, i + Len(substr) - 1) = substr

\* errors.go 104-106: a substring test that ignores case
contains(s, substr) == StringsContains(StringsToLower(s), StringsToLower(substr))

\* errors.go 62-86: neterr is err.Error(), "" standing for a nil err
isRetryableError(neterr) ==
    neterr # "" /\ \E pattern \in retryablePatterns : contains(neterr, pattern)

\* a classification that takes every 5xx status for retryable
isRetryableStatusCode_All5xx(statusCode) ==
    statusCode \in {408, 429} \/ statusCode >= 500

\* errors.go 89-101
isRetryableStatusCode(statusCode) == statusCode \in {408, 429, 500, 502, 503, 504}

\* errors.go 42-49
NewScraperError(neterr) ==
    [kind |-> "ScraperError", State |-> "-", StatusCode |-> 0,
     Retryable |-> isRetryableError(neterr)]

\* errors.go 52-59
NewHTTPError(statusCode) ==
    [kind |-> "ScraperError", State |-> "-", StatusCode |-> statusCode,
     Retryable |-> isRetryableStatusCode(statusCode)]

\* client.Do with a ctx whose deadline has passed: the transport error
\* wraps context.DeadlineExceeded
DeadlineExceeded == Response(0, "context deadline exceeded")

\* the body and Content-Type the server sends with a status below 400
ServedBody == <<"<title>", "x", "</title>">>

ServedContentType == "text/html"

\* HTTPStrategy.Execute on a server that answers r: the result and the error
StrategyExecute(r) ==
    IF r.neterr # ""
    THEN [StatusCode |-> 0, Title |-> <<>>, err |-> NewScraperError(r.neterr)]
    ELSE IF r.StatusCode >= 400
         THEN [StatusCode |-> 0, Title |-> <<>>, err |-> NewHTTPError(r.StatusCode)]
         ELSE [StatusCode |-> r.StatusCode,
               Title |-> extractTitle(ServedBody, ServedContentType),
               err |-> NilError]

\* the type assertion err.(*ScraperError)
IsScraperError(err) == err.kind = "ScraperError"

\* a loop that retries on the last attempt as well
LoopDecision_Inclusive(err, att, retryAttempts) ==
    IF err.kind = "nil" THEN "success"
    ELSE IF IsCircuitBreakerError(err) THEN "break"
    ELSE IF IsScraperError(err) /\ err.Retryable /\ att <= retryAttempts
         THEN "retry"
         ELSE "break"

\* a loop that retries after a rejection by the breaker
LoopDecision_RetryRejected(err, att, retryAttempts) ==
    IF err.kind = "nil" THEN "success"
    ELSE IF (IsCircuitBreakerError(err) \/ err.Retryable) /\ att < retryAttempts
         THEN "retry"
         ELSE "break"

\* main.go 146-167: what the retry loop does with the error of attempt att
LoopDecision(err, att, retryAttempts) ==
    IF err.kind = "nil" THEN "success"
    ELSE IF IsCircuitBreakerError(err) THEN "break"
    ELSE IF IsScraperError(err) /\ err.Retryable /\ att < retryAttempts
         THEN "retry"
         ELSE "break"

\* a backoff that does not grow
Backoff_Constant(retryDelay, att) == retryDelay

\* main.go 159: s.config.RetryDelay * time.Duration(attempt)
Backoff(retryDelay, att) == retryDelay * att

\* error.Error() of the errors doScrape meets
ErrorText(e) ==
    CASE e.kind = "CircuitBreakerError" -> "circuit breaker is open"
      [] e.kind = "ScraperError" -> "scraper error"
      [] OTHER -> ""

\* the ScrapedData of doScrape: URL, Status, Title and Error
FetchData(url, status, error) ==
    [URL |-> url, Status |-> status, Title |-> <<>>, Error |-> error]

\* the text of the error of client.Do when the client's Timeout passes
\* before the headers arrive
ClientTimeout ==
    "Get \"http://h1/a\": context deadline exceeded (Client.Timeout exceeded while awaiting headers)"

\* the server's answers to one URL, in order; the last one is repeated
Scripts ==
    { <<Response(200, "")>>,
      <<Response(404, "")>>,
      <<Response(503, ""), Response(503, ""), Response(200, "")>>,
      <<Response(0, ClientTimeout)>> }

\* what a worker is given: a URL and the server's answers to it
Inputs ==
    { [url |-> "http://h1/a", script |-> s] : s \in Scripts }
       \cup { [url |-> "ftp://h1/f", script |-> <<Response(200, "")>>] }

\* the script after one more request
Served(s) == IF Len(s) > 1 THEN Tail(s) ELSE s

\* Metrics with no call recorded
NewMetrics == [requests |-> 0, successes |-> 0, failures |-> 0, retries |-> 0]

\* no doScrape has been called
InitRetryIdle ==
    /\ input = [c \in Callers |-> [url |-> "", script |-> <<>>]]
    /\ rpc = [c \in Callers |-> "idle"]
    /\ attempt = [c \in Callers |-> 0]
    /\ script = [c \in Callers |-> <<>>]
    /\ fnErr = [c \in Callers |-> NilError]
    /\ lastErr = [c \in Callers |-> NilError]
    /\ data = [c \in Callers |-> FetchData("", 0, "")]
    /\ invocations = [c \in Callers |-> 0]
    /\ slept = [c \in Callers |-> <<>>]
    /\ wakeAt = [c \in Callers |-> 0]
    /\ metrics = NewMetrics
    /\ breakers = 0
(***************************************************************************)
(* The job store as its clients call it (storage.go 141-235, 253-297).     *)
(***************************************************************************)
\* RedisStorage.DeleteJob, lines 222-225: SREM jobs:all <id>; the set after
\* the command, which fails or not
RedisSRem(all, id, failed) == IF failed THEN all ELSE all \ {id}

\* RedisStorage.DeleteJob, lines 228-231: DEL job:<id>, a round trip of its
\* own; the keys after the command, which fails or not
RedisDel(kv, id, failed) == IF failed THEN kv ELSE [kv EXCEPT ![id] = NoKey]

\* InMemoryStorage.DeleteJob: delete(m.jobs, jobID)
MemDeleteJob(m, id) == [m EXCEPT ![id] = NoPointer]

\* Storage.DeleteJob up to the return of its first command.  next is what
\* the caller does then: "nil" (the call returned nil), "err" (it returned
\* the error of the SREM) or "del" (RedisStorage.DeleteJob still has its DEL
\* to send)
DeleteJob(id, failed, next) ==
    IF storageKind = "redis"
    THEN /\ redisAll' = RedisSRem(redisAll, id, failed)
         /\ next = (IF failed THEN "err" ELSE "del")
         /\ UNCHANGED <<memJobs, redisKV>>
    ELSE /\ memJobs' = MemDeleteJob(memJobs, id)
         /\ next = "nil"
         /\ UNCHANGED <<redisKV, redisAll>>

\* RedisStorage.DeleteJob, lines 228-234: the DEL and the return; the call
\* returns an error exactly when the DEL failed
DeleteJobDel(id, failed) ==
    /\ redisKV' = RedisDel(redisKV, id, failed)
    /\ UNCHANGED <<memJobs, redisAll>>

\* no call of the client is inside the store
NoCall == [op |-> "none", id |-> 0, rec |-> NoJob, prev |-> NoJob]

\* a call of the client that is between the two commands of the Redis
\* store: the operation, the id, the record given and the record the store
\* returned for the id when the call began
Call(op, id, rec, prev) == [op |-> op, id |-> id, rec |-> rec, prev |-> prev]

\* the client has called nothing yet
NoOp == [op |-> "none", rec |-> NoJob, replaced |-> FALSE, err |-> FALSE,
         deleted |-> FALSE]

\* a call of the client: the operation, the record given, whether the store
\* returned another record for the id before the call, whether the call
\* erred, and whether it found the id removed by the call before it
\* (before is the client's previous operation on the id)
Op(op, rec, prev, err, before) ==
    [op |-> op, rec |-> rec, replaced |-> (prev # NoJob /\ prev # rec), err |-> err,
     deleted |-> (before = "delete" /\ prev = NoJob)]

InitStoreIdle ==
    /\ lastOp = [j \in Jobs |-> NoOp]
    /\ storeCall = NoCall
    /\ mapWriters = {}
    /\ mapReaders = {}
    /\ mapRaced = [j \in Jobs |-> {}]
(***************************************************************************)
(* SpecCB: CircuitBreaker.Execute, one action per critical section.        *)
(***************************************************************************)
\* Execute, line 303: the admission check of a new call
ExecuteCanExecute(c) ==
    /\ cpc[c] = "idle"
    /\ calls < MaxCalls
    /\ LET r == canExecute(cb, now)
       IN /\ cb' = r.cb
          /\ cpc' = [cpc EXCEPT ![c] = IF r.ok THEN "admitted" ELSE "rejected"]
    /\ calls' = calls + 1
    /\ ret' = [ret EXCEPT ![c] = NoReturn]
    /\ UNCHANGED <<now, consec, jobVars>>

\* Execute, lines 304-307: the rejection reads the state again, by getState
ExecuteReject(c) ==
    /\ cpc[c] = "rejected"
    /\ ret' = [ret EXCEPT ![c] = CircuitBreakerError(getState(cb))]
    /\ cpc' = [cpc EXCEPT ![c] = "idle"]
    /\ UNCHANGED <<now, cb, calls, consec, jobVars>>

\* Execute, line 310
ExecuteRecordRequest(c) ==
    /\ cpc[c] = "admitted"
    /\ cb' = recordRequest(cb)
    /\ cpc' = [cpc EXCEPT ![c] = "calling"]
    /\ UNCHANGED <<now, ret, calls, consec, jobVars>>

\* Execute, line 311: the guarded function runs and returns nil or an error
ExecuteFn(c) ==
    /\ cpc[c] = "calling"
    /\ \E failed \in BOOLEAN :
          cpc' = [cpc EXCEPT ![c] = IF failed THEN "fn_failed" ELSE "fn_ok"]
    /\ UNCHANGED <<now, cb, ret, calls, consec, jobVars>>

\* Execute, lines 313-314 and 319
ExecuteRecordFailure(c) ==
    /\ cpc[c] = "fn_failed"
    /\ cb' = recordFailure(cb, now)
    /\ consec' = consec + 1
    /\ ret' = [ret EXCEPT ![c] = FnError]
    /\ cpc' = [cpc EXCEPT ![c] = "idle"]
    /\ UNCHANGED <<now, calls, jobVars>>

\* Execute, lines 315-316 and 319
ExecuteRecordSuccess(c) ==
    /\ cpc[c] = "fn_ok"
    /\ cb' = recordSuccess(cb, now)
    /\ consec' = 0
    /\ ret' = [ret EXCEPT ![c] = NilError]
    /\ cpc' = [cpc EXCEPT ![c] = "idle"]
    /\ UNCHANGED <<now, calls, jobVars>>

\* the clock advances
Tick ==
    /\ now < MaxTime
    /\ now' = now + 1
    /\ UNCHANGED <<cbVars, jobVars, retryVars>>

\* a caller of Execute that is not a doScrape of SpecRetry
CallerCanExecute(c) == ExecuteCanExecute(c) /\ UNCHANGED retryVars

CallerReject(c) == ExecuteReject(c) /\ UNCHANGED retryVars

CallerRecordRequest(c) == ExecuteRecordRequest(c) /\ UNCHANGED retryVars

CallerFn(c) == ExecuteFn(c) /\ UNCHANGED retryVars

CallerRecordFailure(c) == ExecuteRecordFailure(c) /\ UNCHANGED retryVars

CallerRecordSuccess(c) == ExecuteRecordSuccess(c) /\ UNCHANGED retryVars

InitCB ==
    /\ now = 0
    /\ \E th \in 1..MaxThreshold, rt \in 1..MaxResetTimeout :
          cb = NewCircuitBreaker(th, rt, 0)
    /\ cpc = [c \in Callers |-> "idle"]
    /\ ret = [c \in Callers |-> NoReturn]
    /\ calls = 0
    /\ consec = 0
    /\ storageKind = "memory"
    /\ config = WidestConfig
    /\ InitJobs
    /\ InitRetryIdle
    /\ InitStoreIdle
    /\ passedStart = [j \in Jobs |-> NilTime]
    /\ InitTitleIdle
    /\ InitCtxIdle

NextCB ==
    \/ \E c \in Callers : CallerCanExecute(c)
    \/ \E c \in Callers : CallerReject(c)
    \/ \E c \in Callers : CallerRecordRequest(c)
    \/ \E c \in Callers : CallerFn(c)
    \/ \E c \in Callers : CallerRecordFailure(c)
    \/ \E c \in Callers : CallerRecordSuccess(c)
    \/ Tick

SpecCB == InitCB /\ [][NextCB]_vars

(***************************************************************************)
(* Spec: the job pipeline.  Requests arrive on NumJobs connections; each   *)
(* accepted job runs its executor and its fetches concurrently.            *)
(***************************************************************************)
Init ==
    /\ now = 0
    /\ cb = NewCircuitBreaker(1, 1, 0)
    /\ cpc = [c \in Callers |-> "idle"]
    /\ ret = [c \in Callers |-> NoReturn]
    /\ calls = 0
    /\ consec = 0
    /\ InitRetryIdle
    /\ InitStoreIdle
    /\ passedStart = [j \in Jobs |-> NilTime]
    /\ InitTitleIdle
    /\ InitCtxIdle
    /\ storageKind \in {"memory", "redis"}
    /\ config = WidestConfig
    /\ InitJobs

Next ==
    \/ \E j \in Jobs : HandleScrape(j)
    \/ \E j \in Jobs : HandleScrapeSAdd(j)
    \/ \E j \in Jobs : HandleStartJob(j)
    \/ \E j \in Jobs : HandleAccepted(j)
    \/ \E j \in Jobs : ExecSetRunning(j)
    \/ \E j \in Jobs : ExecSetStartedAt(j)
    \/ \E j \in Jobs : ExecUpdateRunning(j)
    \/ \E j \in Jobs : ExecUpdateRunningSAdd(j)
    \/ \E j \in Jobs : SpawnFetch(j)
    \/ \E j \in Jobs : StartCloser(j)
    \/ \E j \in Jobs : CloserWait(j)
    \/ \E j \in Jobs : CloserWake(j)
    \/ \E j \in Jobs, i \in FetchIds : AcquireGlobal(j, i)
    \/ \E j \in Jobs, i \in FetchIds : PanicDeferred(j, i)
    \/ \E j \in Jobs, i \in FetchIds : PanicExit(j, i)
    \/ \E j \in Jobs, i \in FetchIds : AcquireDomain(j, i)
    \/ \E j \in Jobs, i \in FetchIds : DoScrape(j, i)
    \/ \E j \in Jobs, i \in FetchIds : ReleaseGlobal(j, i)
    \/ \E j \in Jobs, i \in FetchIds : ReleaseDomain(j, i)
    \/ \E j \in Jobs, i \in FetchIds : FetchDone(j, i)
    \/ \E j \in Jobs : CollectOne(j)
    \/ \E j \in Jobs : CollectEnd(j)
    \/ \E j \in Jobs : SiteNext(j)
    \/ \E j \in Jobs : SiteAfterFetch(j)
    \/ \E j \in Jobs : ExecSetResults(j)
    \/ \E j \in Jobs : ExecSetProgress(j)
    \/ \E j \in Jobs : ExecSetNow(j)
    \/ \E j \in Jobs : ExecSetCompletedAt(j)
    \/ \E j \in Jobs : ExecSetCompleted(j)
    \/ \E j \in Jobs : ExecUpdateCompleted(j)
    \/ \E j \in Jobs : ExecUpdateCompletedSAdd(j)

Spec == Init /\ [][Next]_vars

(***************************************************************************)
(* SpecAdmission: the fetches of NumJobs running jobs contend for the      *)
(* semaphores.  It starts where executeScrapingJob calls ScrapeURLs or     *)
(* ScrapeSite (api.go 180-184) for every job and takes the Scraper's       *)
(* actions of Spec, for every configuration of the capacities.             *)
(***************************************************************************)
\* the requests of the running jobs: batches over the limited host h1 and
\* the unlimited host h2, and a pagination job
AdmissionRequests ==
    { ScrapeRequest(<<"http://h1/a">>, ""),
      ScrapeRequest(<<"http://h2/b">>, ""),
      ScrapeRequest(<<"http://h1/a", "http://h2/b">>, ""),
      ScrapeRequest(<<>>, "http://h1/a") }

\* the job object once executeScrapingJob has stored it as running
RunningJob(j) == [NewJob(j, 0) EXCEPT !.Status = "running", !.StartedAt = TimeValue(0)]

\* the locals of ScrapeSite at its first loop test (main.go 331-333)
SiteStart(r) ==
    [queue |-> IF r.SiteURL # "" THEN <<r.SiteURL>> ELSE <<>>,
     visited |-> {}, pages |-> 0, cur |-> "", last |-> ScrapedData("", "", "", "")]

InitAdmission ==
    /\ now = 0
    /\ cb = NewCircuitBreaker(1, 1, 0)
    /\ cpc = [c \in Callers |-> "idle"]
    /\ ret = [c \in Callers |-> NoReturn]
    /\ calls = 0
    /\ consec = 0
    /\ InitRetryIdle
    /\ InitStoreIdle
    /\ passedStart = [j \in Jobs |-> RunningJob(j).StartedAt]
    /\ InitTitleIdle
    /\ InitCtxIdle
    /\ storageKind = "memory"
    /\ config \in Configs
    /\ crashed = FALSE
    /\ memJobs = [j \in Jobs |-> j]
    /\ redisKV = [j \in Jobs |-> NoKey]
    /\ redisAll = {}
    /\ req \in [Jobs -> AdmissionRequests]
    /\ SubmittedURLs(NumJobs) <= MaxAdmissionURLs
    /\ hpc = [j \in Jobs |-> "done"]
    /\ resp = [j \in Jobs |-> 202]
    /\ job = [j \in Jobs |-> RunningJob(j)]
    /\ epc = [j \in Jobs |-> IF req[j].SiteURL # "" THEN "site_loop" ELSE "spawning"]
    /\ fpc = [j \in Jobs |-> [i \in 0..Len(req[j].URLs) |-> "none"]]
    /\ resultsChan = [j \in Jobs |-> <<>>]
    /\ chanClosed = [j \in Jobs |-> FALSE]
    /\ results = [j \in Jobs |-> <<>>]
    /\ closer = [j \in Jobs |-> "none"]
    /\ rateLimiter = 0
    /\ domainLimiters = [h \in Hosts |-> 0]
    /\ wg = [v |-> 0, w |-> 0]
    /\ site = [j \in Jobs |-> SiteStart(req[j])]

NextAdmission ==
    \/ \E j \in Jobs : SpawnFetch(j)
    \/ \E j \in Jobs : StartCloser(j)
    \/ \E j \in Jobs : CloserWait(j)
    \/ \E j \in Jobs : CloserWake(j)
    \/ \E j \in Jobs, i \in FetchIds : AcquireGlobal(j, i)
    \/ \E j \in Jobs, i \in FetchIds : AcquireDomain(j, i)
    \/ \E j \in Jobs, i \in FetchIds : DoScrape(j, i)
    \/ \E j \in Jobs, i \in FetchIds : ReleaseGlobal(j, i)
    \/ \E j \in Jobs, i \in FetchIds : ReleaseDomain(j, i)
    \/ \E j \in Jobs, i \in FetchIds : FetchDone(j, i)
    \/ \E j \in Jobs : CollectOne(j)
    \/ \E j \in Jobs : CollectEnd(j)
    \/ \E j \in Jobs : SiteNext(j)
    \/ \E j \in Jobs : SiteAfterFetch(j)

SpecAdmission == InitAdmission /\ [][NextAdmission]_vars


(***************************************************************************)
(* SpecLayered: the fetches of two jobs at the semaphores, from the moment *)
(* every fetch of the batch jobs has been spawned (main.go 297-300) and    *)
(* every pagination job is at its first loop test, under the scheduling of *)
(* the Go runtime.                                                         *)
(***************************************************************************)
\* the requests of the jobs: job 1 is a batch over the limited host h1 and
\* the unlimited host h2, the others a batch over h1 or a pagination of h1
LayeredRequests(j) ==
    IF j = 1
    THEN { ScrapeRequest(<<"http://h1/a", "http://h2/b">>, "") }
    ELSE { ScrapeRequest(<<"http://h1/a">>, ""),
           ScrapeRequest(<<>>, "http://h1/a") }

\* the number of s.wg.Add(1) calls of the jobs 1..n
RECURSIVE SpawnedFetches(_)
SpawnedFetches(n) ==
    IF n = 0 THEN 0 ELSE Len(req[n].URLs) + SpawnedFetches(n - 1)

InitLayered ==
    /\ now = 0
    /\ cb = NewCircuitBreaker(1, 1, 0)
    /\ cpc = [c \in Callers |-> "idle"]
    /\ ret = [c \in Callers |-> NoReturn]
    /\ calls = 0
    /\ consec = 0
    /\ InitRetryIdle
    /\ InitStoreIdle
    /\ passedStart = [j \in Jobs |-> RunningJob(j).StartedAt]
    /\ InitTitleIdle
    /\ InitCtxIdle
    /\ storageKind = "memory"
    /\ config \in Configs
    /\ crashed = FALSE
    /\ memJobs = [j \in Jobs |-> j]
    /\ redisKV = [j \in Jobs |-> NoKey]
    /\ redisAll = {}
    /\ req \in [Jobs -> UNION { LayeredRequests(j) : j \in Jobs }]
    /\ \A j \in Jobs : req[j] \in LayeredRequests(j)
    /\ hpc = [j \in Jobs |-> "done"]
    /\ resp = [j \in Jobs |-> 202]
    /\ job = [j \in Jobs |-> RunningJob(j)]
    /\ epc = [j \in Jobs |-> IF req[j].SiteURL # "" THEN "site_loop" ELSE "spawning"]
    /\ fpc = [j \in Jobs |->
                [i \in 0..Len(req[j].URLs) |-> IF i = 0 THEN "none" ELSE "start"]]
    /\ resultsChan = [j \in Jobs |-> <<>>]
    /\ chanClosed = [j \in Jobs |-> FALSE]
    /\ results = [j \in Jobs |-> <<>>]
    /\ closer = [j \in Jobs |-> "none"]
    /\ rateLimiter = 0
    /\ domainLimiters = [h \in Hosts |-> 0]
    /\ wg = [v |-> SpawnedFetches(NumJobs), w |-> 0]
    /\ site = [j \in Jobs |-> SiteStart(req[j])]

NextLayered ==
    \/ \E j \in Jobs, i \in FetchIds : AcquireGlobal(j, i)
    \/ \E j \in Jobs, i \in FetchIds : AcquireDomain(j, i)
    \/ \E j \in Jobs, i \in FetchIds : DoScrape(j, i)
    \/ \E j \in Jobs, i \in FetchIds : ReleaseGlobal(j, i)
    \/ \E j \in Jobs, i \in FetchIds : ReleaseDomain(j, i)
    \/ \E j \in Jobs, i \in FetchIds : FetchDone(j, i)
    \/ \E j \in Jobs : SiteNext(j)
    \/ \E j \in Jobs : SiteAfterFetch(j)

\* a goroutine that can run is run in the end, and a goroutine blocked in
\* a channel send is handed the slot that a receive frees (the runtime
\* queues the blocked senders of a channel first in, first out): weak
\* fairness of every step of every fetch and of the loop of ScrapeSite
SpecLayered ==
    /\ InitLayered
    /\ [][NextLayered]_vars
    /\ \A j \in Jobs : WF_vars(SiteNext(j) \/ SiteAfterFetch(j))
    /\ \A j \in Jobs, i \in FetchIds :
          /\ WF_vars(AcquireGlobal(j, i))
          /\ WF_vars(AcquireDomain(j, i))
          /\ WF_vars(DoScrape(j, i))
          /\ WF_vars(ReleaseGlobal(j, i))
          /\ WF_vars(ReleaseDomain(j, i))
          /\ WF_vars(FetchDone(j, i))
(***************************************************************************)
(* SpecRetry: concurrent doScrape calls (main.go 85-178) for URLs of one   *)
(* host, with the host's circuit breaker and the retry loop.  Worker c is  *)
(* caller c of the breaker; Execute runs by the actions of SpecCB.  A      *)
(* process that has exited (SpecTimeout) takes no step.                    *)
(***************************************************************************)
\* the retry and breaker settings of Config
RetryConfigs ==
    { [WidestConfig EXCEPT !.RetryAttempts = a, !.RetryDelay = d,
                           !.CircuitBreakerThreshold = th,
                           !.CircuitBreakerTimeout = rt] :
         a \in 0..MaxRetryAttempts, d \in 1..MaxRetryDelay,
         th \in 1..MaxRetryThreshold, rt \in 1..MaxResetTimeout }

\* the lookup that always misses: a new breaker is stored at every call
getOrCreateBreaker_AlwaysNew(n, b, conf, clock) ==
    [cb       |-> NewCircuitBreaker(conf.CircuitBreakerThreshold,
                                    conf.CircuitBreakerTimeout, clock),
     breakers |-> n + 1]

\* lines 101-107, under s.mu: the breaker of the host is looked up in
\* s.circuitBreakers and created and stored only when it is missing; n is
\* the number of breakers created for the host so far, b the stored one
getOrCreateBreaker(n, b, conf, clock) ==
    IF n = 0
    THEN [cb       |-> NewCircuitBreaker(conf.CircuitBreakerThreshold,
                                         conf.CircuitBreakerTimeout, clock),
          breakers |-> 1]
    ELSE [cb |-> b, breakers |-> n]

\* lines 87-112: ValidateURL; the breaker of the host is looked up or
\* created under s.mu, which is released at line 107; data is set up
DoScrapeBegin(c) ==
    /\ ~crashed
    /\ rpc[c] = "idle"
    /\ IF ~ValidateURL(input[c].url)
       THEN /\ data' = [data EXCEPT ![c] = FetchData(input[c].url, 0, "invalid URL")]
            /\ rpc' = [rpc EXCEPT ![c] = "done"]
            /\ UNCHANGED <<cb, breakers>>
       ELSE /\ LET got == getOrCreateBreaker(breakers, cb, config, now)
               IN /\ cb' = got.cb
                  /\ breakers' = got.breakers
            /\ data' = [data EXCEPT ![c] = FetchData(input[c].url, 0, "")]
            /\ rpc' = [rpc EXCEPT ![c] = "record_request"]
    /\ UNCHANGED <<now, cpc, ret, calls, consec, jobVars, input, attempt, script,
                   fnErr, lastErr, invocations, slept, wakeAt, metrics>>

\* line 115: s.metrics.RecordRequest(), an atomic add of its own; lines
\* 118-119: the loop starts with attempt 1
DoScrapeRecordRequest(c) ==
    /\ ~crashed
    /\ rpc[c] = "record_request"
    /\ metrics' = [metrics EXCEPT !.requests = @ + 1]
    /\ attempt' = [attempt EXCEPT ![c] = 1]
    /\ rpc' = [rpc EXCEPT ![c] = "loop"]
    /\ UNCHANGED <<now, cbVars, jobVars, input, script, fnErr, lastErr, data,
                   invocations, slept, wakeAt, breakers>>

\* line 119, condition true, and line 123: cb.Execute is called
LoopExecute(c) ==
    /\ ~crashed
    /\ rpc[c] = "loop"
    /\ attempt[c] <= config.RetryAttempts
    /\ ExecuteCanExecute(c)
    /\ rpc' = [rpc EXCEPT ![c] = "executing"]
    /\ UNCHANGED <<input, attempt, script, fnErr, lastErr, data, invocations,
                   slept, wakeAt, metrics, breakers>>

\* line 119, condition false: the loop body does not run
LoopSkip(c) ==
    /\ ~crashed
    /\ rpc[c] = "loop"
    /\ attempt[c] > config.RetryAttempts
    /\ rpc' = [rpc EXCEPT ![c] = "after_loop"]
    /\ UNCHANGED <<now, cbVars, jobVars, input, attempt, script, fnErr, lastErr,
                   data, invocations, slept, wakeAt, metrics, breakers>>

\* lines 123-144: the function handed to Execute calls the strategy with
\* ctx; on success it records the success and fills data.  A request whose
\* ctx is done fails in the client and the server gives no answer to it.
StrategyCall(c) ==
    /\ ~crashed
    /\ rpc[c] = "executing"
    /\ ExecuteFn(c)
    /\ LET r == StrategyExecute(IF ctxDone THEN DeadlineExceeded
                                           ELSE Head(script[c]))
       IN /\ (cpc'[c] = "fn_failed") = (r.err.kind # "nil")
          /\ invocations' = [invocations EXCEPT ![c] = @ + 1]
          /\ script' = [script EXCEPT ![c] = IF ctxDone THEN @ ELSE Served(@)]
          /\ fnErr' = [fnErr EXCEPT ![c] = r.err]
          /\ IF r.err.kind # "nil"
             THEN UNCHANGED <<data, metrics>>
             ELSE /\ metrics' = [metrics EXCEPT !.successes = @ + 1]
                  /\ data' = [data EXCEPT ![c].Status = r.StatusCode,
                                           ![c].Title = r.Title]
    /\ UNCHANGED <<input, rpc, attempt, lastErr, slept, wakeAt, breakers>>

\* lines 146-167: what the loop does with the error Execute returned, which
\* is the rejection of the breaker or the error of the strategy
AfterExecute(c) ==
    /\ ~crashed
    /\ rpc[c] = "executing"
    /\ cpc[c] = "idle"
    /\ LET err == IF ret[c] = FnError THEN fnErr[c] ELSE ret[c]
           decision == LoopDecision(err, attempt[c], config.RetryAttempts)
       IN /\ lastErr' = [lastErr EXCEPT ![c] = err]
          /\ IF decision = "retry"
             THEN /\ metrics' = [metrics EXCEPT !.retries = @ + 1]
                  /\ slept' = [slept EXCEPT
                       ![c] = Append(@, Backoff(config.RetryDelay, attempt[c]))]
                  /\ wakeAt' = [wakeAt EXCEPT
                       ![c] = now + Backoff(config.RetryDelay, attempt[c])]
                  /\ rpc' = [rpc EXCEPT ![c] = "sleeping"]
             ELSE /\ rpc' = [rpc EXCEPT ![c] = "after_loop"]
                  /\ UNCHANGED <<metrics, slept, wakeAt>>
    /\ UNCHANGED <<now, cbVars, jobVars, input, attempt, script, fnErr, data,
                   invocations, breakers>>

\* lines 159-160: time.Sleep returns, continue: attempt++
SleepReturns(c) ==
    /\ ~crashed
    /\ rpc[c] = "sleeping"
    /\ now >= wakeAt[c]
    /\ attempt' = [attempt EXCEPT ![c] = @ + 1]
    /\ rpc' = [rpc EXCEPT ![c] = "loop"]
    /\ UNCHANGED <<now, cbVars, jobVars, input, script, fnErr, lastErr, data,
                   invocations, slept, wakeAt, metrics, breakers>>

\* lines 170-177: the final error goes into data; doScrape returns data
DoScrapeReturn(c) ==
    /\ ~crashed
    /\ rpc[c] = "after_loop"
    /\ IF lastErr[c].kind # "nil"
       THEN /\ data' = [data EXCEPT ![c].Error = ErrorText(lastErr[c])]
            /\ metrics' = [metrics EXCEPT !.failures = @ + 1]
       ELSE UNCHANGED <<data, metrics>>
    /\ rpc' = [rpc EXCEPT ![c] = "done"]
    /\ UNCHANGED <<now, cbVars, jobVars, input, attempt, script, fnErr, lastErr,
                   invocations, slept, wakeAt, breakers>>

\* Execute, lines 304-307, 310, 313-319, called from the loop
BreakerReject(c) ==
    ~crashed /\ rpc[c] = "executing" /\ ExecuteReject(c) /\ UNCHANGED retryVars

BreakerRecordRequest(c) ==
    ~crashed /\ rpc[c] = "executing" /\ ExecuteRecordRequest(c) /\ UNCHANGED retryVars

BreakerRecordFailure(c) ==
    ~crashed /\ rpc[c] = "executing" /\ ExecuteRecordFailure(c) /\ UNCHANGED retryVars

BreakerRecordSuccess(c) ==
    ~crashed /\ rpc[c] = "executing" /\ ExecuteRecordSuccess(c) /\ UNCHANGED retryVars

InitRetry ==
    /\ now = 0
    /\ config \in RetryConfigs
    /\ storageKind = "memory"
    /\ cb = NewCircuitBreaker(config.CircuitBreakerThreshold,
                              config.CircuitBreakerTimeout, 0)
    /\ cpc = [c \in Callers |-> "idle"]
    /\ ret = [c \in Callers |-> NoReturn]
    /\ calls = 0
    /\ consec = 0
    /\ InitJobs
    /\ InitStoreIdle
    /\ passedStart = [j \in Jobs |-> NilTime]
    /\ InitTitleIdle
    /\ InitCtxIdle
    /\ input \in [Callers -> Inputs]
    /\ rpc = [c \in Callers |-> "idle"]
    /\ attempt = [c \in Callers |-> 0]
    /\ script = [c \in Callers |-> input[c].script]
    /\ fnErr = [c \in Callers |-> NilError]
    /\ lastErr = [c \in Callers |-> NilError]
    /\ data = [c \in Callers |-> FetchData("", 0, "")]
    /\ invocations = [c \in Callers |-> 0]
    /\ slept = [c \in Callers |-> <<>>]
    /\ wakeAt = [c \in Callers |-> 0]
    /\ metrics = NewMetrics
    /\ breakers = 0

NextRetry ==
    \/ \E c \in Callers : DoScrapeBegin(c)
    \/ \E c \in Callers : DoScrapeRecordRequest(c)
    \/ \E c \in Callers : LoopExecute(c)
    \/ \E c \in Callers : LoopSkip(c)
    \/ \E c \in Callers : BreakerReject(c)
    \/ \E c \in Callers : BreakerRecordRequest(c)
    \/ \E c \in Callers : StrategyCall(c)
    \/ \E c \in Callers : BreakerRecordFailure(c)
    \/ \E c \in Callers : BreakerRecordSuccess(c)
    \/ \E c \in Callers : AfterExecute(c)
    \/ \E c \in Callers : SleepReturns(c)
    \/ \E c \in Callers : DoScrapeReturn(c)
    \/ Tick

SpecRetry == InitRetry /\ [][NextRetry]_vars
(***************************************************************************)
(* SpecSite: pagination jobs.  Every job is a running job whose executor   *)
(* calls ScrapeSite (api.go 180-181) on the seed; the pages report any of  *)
(* the links of SiteLinks as their next_url; max_pages ranges over         *)
(* 0..MaxPages.                                                            *)
(***************************************************************************)
SeedURL == "http://h1/a"
P2 == "http://h1/p2"
P3 == "http://h1/p3"

\* the next_url values a page can report: none, a further page, a page
\* already seen, a link that url.Parse rejects
SiteLinks == {"", SeedURL, P2, P3, UnparseableURL}

\* the outcomes of the strategy on a page
PageOutcomes ==
    { [ok |-> TRUE, title |-> "x", next |-> n] : n \in SiteLinks }
        \cup { [ok |-> FALSE, title |-> "", next |-> ""] }

\* scrapeURLSync, line 382, on a page of the site
DoScrapePage(j) ==
    /\ ~crashed
    /\ fpc[j][0] = "acquired"
    /\ \E outcome \in PageOutcomes :
          site' = [site EXCEPT ![j].last = doScrape(FetchURL(j, 0), outcome)]
    /\ fpc' = [fpc EXCEPT ![j][0] = "sent"]
    /\ UNCHANGED <<now, cbVars, retryVars, confVars, clientVars, crashed, storeVars,
                   apiVars, resultsChan, chanClosed, results, closer,
                   rateLimiter, domainLimiters, wg>>

InitSite ==
    /\ now = 0
    /\ cb = NewCircuitBreaker(1, 1, 0)
    /\ cpc = [c \in Callers |-> "idle"]
    /\ ret = [c \in Callers |-> NoReturn]
    /\ calls = 0
    /\ consec = 0
    /\ InitRetryIdle
    /\ InitStoreIdle
    /\ passedStart = [j \in Jobs |-> RunningJob(j).StartedAt]
    /\ InitTitleIdle
    /\ InitCtxIdle
    /\ storageKind = "memory"
    /\ \E m \in 0..MaxPages : config = [WidestConfig EXCEPT !.MaxPages = m]
    /\ crashed = FALSE
    /\ memJobs = [j \in Jobs |-> j]
    /\ redisKV = [j \in Jobs |-> NoKey]
    /\ redisAll = {}
    /\ req = [j \in Jobs |-> ScrapeRequest(<<>>, SeedURL)]
    /\ hpc = [j \in Jobs |-> "done"]
    /\ resp = [j \in Jobs |-> 202]
    /\ job = [j \in Jobs |-> RunningJob(j)]
    /\ epc = [j \in Jobs |-> "site_loop"]
    /\ fpc = [j \in Jobs |-> [i \in 0..0 |-> "none"]]
    /\ resultsChan = [j \in Jobs |-> <<>>]
    /\ chanClosed = [j \in Jobs |-> FALSE]
    /\ results = [j \in Jobs |-> <<>>]
    /\ closer = [j \in Jobs |-> "none"]
    /\ rateLimiter = 0
    /\ domainLimiters = [h \in Hosts |-> 0]
    /\ wg = [v |-> 0, w |-> 0]
    /\ site = [j \in Jobs |-> SiteStart(req[j])]

NextSite ==
    \/ \E j \in Jobs : SiteNext(j)
    \/ \E j \in Jobs : AcquireGlobal(j, 0)
    \/ \E j \in Jobs : PanicExit(j, 0)
    \/ \E j \in Jobs : AcquireDomain(j, 0)
    \/ \E j \in Jobs : DoScrapePage(j)
    \/ \E j \in Jobs : ReleaseGlobal(j, 0)
    \/ \E j \in Jobs : ReleaseDomain(j, 0)
    \/ \E j \in Jobs : SiteAfterFetch(j)
    \/ \E j \in Jobs : ExecSetResults(j)
    \/ \E j \in Jobs : ExecSetProgress(j)
    \/ \E j \in Jobs : ExecSetNow(j)
    \/ \E j \in Jobs : ExecSetCompletedAt(j)
    \/ \E j \in Jobs : ExecSetCompleted(j)
    \/ \E j \in Jobs : ExecUpdateCompleted(j)

SpecSite == InitSite /\ [][NextSite]_vars

\* the steps of the executor of job j and of the fetch it is waiting for
SiteJobNext(j) ==
    \/ SiteNext(j)
    \/ AcquireGlobal(j, 0)
    \/ PanicExit(j, 0)
    \/ AcquireDomain(j, 0)
    \/ DoScrapePage(j)
    \/ ReleaseGlobal(j, 0)
    \/ ReleaseDomain(j, 0)
    \/ SiteAfterFetch(j)
    \/ ExecSetResults(j)
    \/ ExecSetProgress(j)
    \/ ExecSetCompleted(j)
    \/ ExecSetNow(j)
    \/ ExecSetCompletedAt(j)
    \/ ExecUpdateCompleted(j)

\* SpecSiteFair: SpecSite with the goroutine of every job scheduled again
\* and again while it can run, and every fetch returning (go func at
\* api.go 78; the runtime scheduler starves no runnable goroutine)
SpecSiteFair == SpecSite /\ \A j \in Jobs : WF_vars(SiteJobNext(j))
(***************************************************************************)
(* SpecStore: a client calls SaveJob, UpdateJob and DeleteJob on the ids   *)
(* of Jobs, one call after the other, while the store's clock runs; both   *)
(* stores; each Redis command is a step of its own and fails or not.       *)
(***************************************************************************)
\* a job as the executor stores it when it is done
CompletedJob(id) ==
    [RunningJob(id) EXCEPT !.Status = "completed", !.CompletedAt = TimeValue(0),
                           !.Progress = 100,
                           !.Results = <<ScrapedData("http://h1/a", "x", "", "")>>]

\* a completed job whose page was written in Latin-1: the title extracted
\* from it holds a byte that is no valid UTF-8
Latin1Job(id) ==
    [CompletedJob(id) EXCEPT
        !.Results = <<ScrapedData("http://h1/a", "caf" \o InvalidByte, "", "")>>]

\* the records the client passes for an id: the job as HandleScrape builds
\* it and the job of the Latin-1 page when it is done
StoreRecords(id) == {NewJob(id, 0), Latin1Job(id)}

\* the client is given the return value of its call op on the id; prev is
\* the record the store returned for the id when the call began
StoreReturn(op, id, rec, prev, erred) ==
    /\ lastOp' = [lastOp EXCEPT ![id] = Op(op, rec, prev, erred, lastOp[id].op)]
    /\ storeCall' = NoCall

\* the client's call op (SaveJob or UpdateJob) on the id, made with a
\* pointer to the object rec, has sent its first command and returns or
\* goes on to its SADD
StoreWrite(op, id, rec, failed, next) ==
    /\ job' = [job EXCEPT ![id] = rec]
    /\ IF next = "sadd"
       THEN /\ storeCall' = Call(op, id, rec, GetJob(id))
            /\ UNCHANGED lastOp
       ELSE StoreReturn(op, id, rec, GetJob(id), next = "err")

\* SaveJob(ctx, rec) with a record of the id, up to the return of its first
\* command
StoreSaveJob(id) ==
    /\ storeCall = NoCall
    /\ \E rec \in StoreRecords(id), failed \in CommandFails,
          next \in {"nil", "err", "sadd"} :
          /\ SaveJob(rec, now, failed, next)
          /\ StoreWrite("save", id, rec, failed, next)
    /\ UNCHANGED <<now, cbVars, retryVars, confVars, crashed, req, hpc, resp,
                   epc, scraperVars, mapVars, titleVars,
                   ctxVars, passedStart>>

\* UpdateJob(ctx, rec) with a record of the id, up to the return of its
\* first command
StoreUpdateJob(id) ==
    /\ storeCall = NoCall
    /\ \E rec \in StoreRecords(id), failed \in CommandFails,
          next \in {"nil", "err", "sadd"} :
          /\ UpdateJob(rec, now, failed, next)
          /\ StoreWrite("update", id, rec, failed, next)
    /\ UNCHANGED <<now, cbVars, retryVars, confVars, crashed, req, hpc, resp,
                   epc, scraperVars, mapVars, titleVars,
                   ctxVars, passedStart>>

\* RedisStorage.SaveJob, lines 154-159, in a SaveJob or UpdateJob call of
\* the client: the SADD and the return
StoreSAdd(id) ==
    /\ storeCall.op \in {"save", "update"}
    /\ storeCall.id = id
    /\ \E failed \in CommandFails :
          /\ SaveJobSAdd(id, failed)
          /\ StoreReturn(storeCall.op, id, storeCall.rec, storeCall.prev, failed)
    /\ UNCHANGED <<now, cbVars, retryVars, confVars, crashed, apiVars,
                   scraperVars, mapVars, titleVars,
                   ctxVars, passedStart>>

\* DeleteJob(ctx, id) up to the return of its first command
StoreDeleteJob(id) ==
    /\ storeCall = NoCall
    /\ \E failed \in CommandFails, next \in {"nil", "err", "del"} :
          /\ DeleteJob(id, failed, next)
          /\ IF next = "del"
             THEN /\ storeCall' = Call("delete", id, NoJob, GetJob(id))
                  /\ UNCHANGED lastOp
             ELSE StoreReturn("delete", id, NoJob, GetJob(id), next = "err")
    /\ UNCHANGED <<now, cbVars, retryVars, confVars, crashed, apiVars,
                   scraperVars, mapVars, titleVars,
                   ctxVars, passedStart>>

\* RedisStorage.DeleteJob, lines 228-234, in a DeleteJob call of the client:
\* the DEL and the return
StoreDel(id) ==
    /\ storeCall.op = "delete"
    /\ storeCall.id = id
    /\ \E failed \in CommandFails :
          /\ DeleteJobDel(id, failed)
          /\ StoreReturn("delete", id, NoJob, storeCall.prev, failed)
    /\ UNCHANGED <<now, cbVars, retryVars, confVars, crashed, apiVars,
                   scraperVars, mapVars, titleVars,
                   ctxVars, passedStart>>

\* the client writes to the object it passed to SaveJob or UpdateJob
\* earlier, without a call to the store, as executeScrapingJob does with
\* job.Status = "running" (api.go 169) on the object HandleScrape saved
StoreMutate(id) ==
    /\ storeCall = NoCall
    /\ lastOp[id].op \in {"save", "update"}
    /\ job[id].Status = "pending"
    /\ job' = [job EXCEPT ![id].Status = "running"]
    /\ UNCHANGED <<now, cbVars, retryVars, confVars, clientVars, crashed,
                   storeVars, req, hpc, resp, epc, scraperVars>>

\* a day passes.  The two commands of one call are sent within the
\* client's timeouts, seconds apart: no day ends between them.
StoreTick ==
    /\ now < MaxStoreTime
    /\ storeCall = NoCall
    /\ now' = now + 1
    /\ UNCHANGED <<cbVars, retryVars, confVars, clientVars, crashed, storeVars,
                   apiVars, scraperVars>>

InitStore ==
    /\ now = 0
    /\ cb = NewCircuitBreaker(1, 1, 0)
    /\ cpc = [c \in Callers |-> "idle"]
    /\ ret = [c \in Callers |-> NoReturn]
    /\ calls = 0
    /\ consec = 0
    /\ InitRetryIdle
    /\ InitStoreIdle
    /\ passedStart = [j \in Jobs |-> NilTime]
    /\ InitTitleIdle
    /\ InitCtxIdle
    /\ storageKind \in {"memory", "redis"}
    /\ config = WidestConfig
    /\ InitJobs

NextStore ==
    \/ \E id \in Jobs : StoreSaveJob(id)
    \/ \E id \in Jobs : StoreUpdateJob(id)
    \/ \E id \in Jobs : StoreSAdd(id)
    \/ \E id \in Jobs : StoreDeleteJob(id)
    \/ \E id \in Jobs : StoreDel(id)
    \/ \E id \in Jobs : StoreMutate(id)
    \/ StoreTick

SpecStore == InitStore /\ [][NextStore]_vars
(***************************************************************************)
(* SpecMem: the goroutines that use the map of InMemoryStorage.  The HTTP  *)
(* server runs every request in a goroutine of its own; HandleScrape calls *)
(* SaveJob, executeScrapingJob calls UpdateJob twice, HandleJobStatus      *)
(* calls GetJob.  The map operations take time: a goroutine enters one and *)
(* leaves it.  InMemoryStorage holds no lock (storage.go 242-244), so      *)
(* nothing delays an entry.  The jobs are pagination jobs with max_pages 0 *)
(* (ScrapeSite returns at its first loop test).                            *)
(***************************************************************************)
\* the writes in progress that overlapped another write of the map at some
\* time since they began, whether that other write has returned or not
RacedWrites == { w \in mapWriters : mapRaced[w] # {} }

\* a read of the map is in progress while a write is
ReadDuringWrite == mapReaders # {} /\ mapWriters # {}

\* goroutine j begins a write of the map: it overlaps every write in
\* progress, and each of them overlaps it
BeginWrite(j) ==
    /\ mapWriters' = mapWriters \cup {j}
    /\ mapRaced' = [k \in Jobs |->
                      IF k = j THEN mapWriters \ {j}
                      ELSE IF k \in mapWriters THEN mapRaced[k] \cup {j}
                      ELSE mapRaced[k]]

\* goroutine j has returned from its write of the map
EndWrite(j) ==
    /\ mapWriters' = mapWriters \ {j}
    /\ mapRaced' = [mapRaced EXCEPT ![j] = {}]

\* what the unsynchronised write m.jobs[j.ID] = j leaves in the map.  A
\* write that overlapped no other write stores its entry.  Writes that
\* overlapped are a data race, whose outcome the language does not define:
\* under each key the racing writers store there is the entry as it was, no
\* entry, or the pointer of any of these writers (two writers that pick the
\* same free slot leave the key of one with the pointer of the other, or
\* only the later store); an entry of any other key stays or is lost.
RacyWrite(m, j, others) ==
    IF others = {}
    THEN {MemSaveJob(m, j)}
    ELSE LET written == others \cup {j.ID}
         IN { n \in [Jobs -> {NoPointer} \cup Jobs] :
                 \A id \in Jobs :
                    n[id] \in {m[id], NoPointer}
                               \cup (IF id \in written THEN written ELSE {}) }

\* HandleScrape, lines 80-110: the request is accepted, the job is built
\* and SaveJob begins
SaveJobEnter(j) ==
    /\ ~crashed
    /\ storageKind = "memory"
    /\ hpc[j] = "idle"
    /\ req' = [req EXCEPT ![j] = ScrapeRequest(<<>>, SeedURL)]
    /\ job' = [job EXCEPT ![j] = NewJob(j, now)]
    /\ hpc' = [hpc EXCEPT ![j] = "saving"]
    /\ BeginWrite(j)
    /\ UNCHANGED <<now, cbVars, retryVars, confVars, titleVars, ctxVars,
                   lastOp, storeCall, passedStart, mapReaders,
                   crashed, storeVars, resp, epc, scraperVars>>

\* InMemoryStorage.SaveJob returns
SaveJobLeave(j) ==
    /\ ~crashed
    /\ hpc[j] = "saving"
    /\ memJobs' \in RacyWrite(memJobs, job[j], mapRaced[j])
    /\ EndWrite(j)
    /\ hpc' = [hpc EXCEPT ![j] = "saved"]
    /\ UNCHANGED <<now, cbVars, retryVars, confVars, titleVars, ctxVars,
                   lastOp, storeCall, passedStart, mapReaders,
                   crashed, redisKV, redisAll, req, resp, job, epc, scraperVars>>

\* executeScrapingJob, lines 172 and 193: UpdateJob begins
UpdateJobEnter(j) ==
    /\ ~crashed
    /\ epc[j] \in {"update_running", "update_completed"}
    /\ epc' = [epc EXCEPT ![j] = IF epc[j] = "update_running"
                                 THEN "updating_running" ELSE "updating_completed"]
    /\ BeginWrite(j)
    /\ passedStart' = IF epc[j] = "update_running"
                      THEN [passedStart EXCEPT ![j] = job[j].StartedAt]
                      ELSE passedStart
    /\ UNCHANGED <<now, cbVars, retryVars, confVars, titleVars, ctxVars,
                   lastOp, storeCall, mapReaders,
                   crashed, storeVars, req, hpc, resp, job, scraperVars>>

\* InMemoryStorage.UpdateJob returns; after the first one ScrapeSite starts
UpdateJobLeave(j) ==
    /\ ~crashed
    /\ epc[j] \in {"updating_running", "updating_completed"}
    /\ memJobs' \in RacyWrite(memJobs, job[j], mapRaced[j])
    /\ EndWrite(j)
    /\ IF epc[j] = "updating_running"
       THEN /\ epc' = [epc EXCEPT ![j] = "site_loop"]
            /\ site' = [site EXCEPT ![j] = SiteStart(req[j])]
       ELSE /\ epc' = [epc EXCEPT ![j] = "done"]
            /\ UNCHANGED site
    /\ UNCHANGED <<now, cbVars, retryVars, confVars, titleVars, ctxVars,
                   lastOp, storeCall, passedStart, mapReaders,
                   crashed, redisKV, redisAll, req, hpc, resp, job, fpc,
                   resultsChan, chanClosed, results, closer, rateLimiter,
                   domainLimiters, wg>>

\* HandleJobStatus, line 145: GetJob(id) begins
GetJobEnter(id) ==
    /\ ~crashed
    /\ id \notin mapReaders
    /\ mapReaders' = mapReaders \cup {id}
    /\ UNCHANGED <<now, cbVars, retryVars, confVars, titleVars, ctxVars,
                   lastOp, storeCall, passedStart, mapWriters, mapRaced,
                   crashed, storeVars, apiVars, scraperVars>>

\* InMemoryStorage.GetJob returns
GetJobLeave(id) ==
    /\ ~crashed
    /\ id \in mapReaders
    /\ mapReaders' = mapReaders \ {id}
    /\ UNCHANGED <<now, cbVars, retryVars, confVars, titleVars, ctxVars,
                   lastOp, storeCall, passedStart, mapWriters, mapRaced,
                   crashed, storeVars, apiVars, scraperVars>>

\* the Go runtime notices the unsynchronised map access and ends the
\* process.  A read checks the map's write flag when it begins (fatal
\* error: concurrent map read and map write).  A write checks the flag
\* when it begins and again when it ends, where it finds the flag cleared
\* by a write that overlapped it, also one that has returned meanwhile
\* (fatal error: concurrent map writes).
MapFault ==
    /\ ~crashed
    /\ (ReadDuringWrite \/ RacedWrites # {})
    /\ crashed' = TRUE
    /\ UNCHANGED <<now, cbVars, retryVars, confVars, clientVars, storeVars,
                   apiVars, scraperVars>>

InitMem ==
    /\ now = 0
    /\ cb = NewCircuitBreaker(1, 1, 0)
    /\ cpc = [c \in Callers |-> "idle"]
    /\ ret = [c \in Callers |-> NoReturn]
    /\ calls = 0
    /\ consec = 0
    /\ InitRetryIdle
    /\ InitStoreIdle
    /\ passedStart = [j \in Jobs |-> NilTime]
    /\ InitTitleIdle
    /\ InitCtxIdle
    /\ storageKind = "memory"
    /\ config = [WidestConfig EXCEPT !.MaxPages = 0]
    /\ InitJobs

NextMem ==
    \/ \E j \in Jobs : SaveJobEnter(j)
    \/ \E j \in Jobs : SaveJobLeave(j)
    \/ \E j \in Jobs : HandleStartJob(j)
    \/ \E j \in Jobs : HandleAccepted(j)
    \/ \E j \in Jobs : ExecSetRunning(j)
    \/ \E j \in Jobs : ExecSetStartedAt(j)
    \/ \E j \in Jobs : UpdateJobEnter(j)
    \/ \E j \in Jobs : UpdateJobLeave(j)
    \/ \E j \in Jobs : SiteNext(j)
    \/ \E j \in Jobs : ExecSetResults(j)
    \/ \E j \in Jobs : ExecSetProgress(j)
    \/ \E j \in Jobs : ExecSetNow(j)
    \/ \E j \in Jobs : ExecSetCompletedAt(j)
    \/ \E j \in Jobs : ExecSetCompleted(j)
    \/ \E id \in Jobs : GetJobEnter(id)
    \/ \E id \in Jobs : GetJobLeave(id)
    \/ MapFault

SpecMem == InitMem /\ [][NextMem]_vars
(***************************************************************************)
(* SpecTitle: extractTitle applied to a body and a content type, and then  *)
(* again to the title it returned.                                         *)
(***************************************************************************)
ExtractTitle ==
    /\ Len(titles) < MaxExtractions
    /\ titles' = Append(titles, extractTitle(content, contentType))
    /\ content' = extractTitle(content, contentType)
    /\ UNCHANGED <<now, cbVars, retryVars, confVars, lastOp, storeCall, passedStart, mapVars,
                   contentType, ctxVars, crashed, storeVars, apiVars,
                   scraperVars>>

InitTitle ==
    /\ now = 0
    /\ cb = NewCircuitBreaker(1, 1, 0)
    /\ cpc = [c \in Callers |-> "idle"]
    /\ ret = [c \in Callers |-> NoReturn]
    /\ calls = 0
    /\ consec = 0
    /\ InitRetryIdle
    /\ InitStoreIdle
    /\ passedStart = [j \in Jobs |-> NilTime]
    /\ InitCtxIdle
    /\ storageKind = "memory"
    /\ config = WidestConfig
    /\ InitJobs
    /\ content \in Bodies
    /\ contentType \in ContentTypes
    /\ titles = <<>>

NextTitle == ExtractTitle

SpecTitle == InitTitle /\ [][NextTitle]_vars

(***************************************************************************)
(* SpecTimeout: the scrapeURL goroutines of one ScrapeURLs call (main.go   *)
(* 69-82, 287-318) and the deadline of its ctx.  Worker c fetches URL c:   *)
(* acquireRateLimiters, doScrape with the retry loop of SpecRetry, then    *)
(* releaseRateLimiters.                                                    *)
(***************************************************************************)
TimeoutConfigs ==
    { [WidestConfig EXCEPT !.MaxConcurrent = m, !.RetryAttempts = a,
                           !.CircuitBreakerThreshold = th] :
         m \in 1..MaxConcurrent, a \in {0, MaxRetryAttempts - 1},
         th \in {1, MaxRetryThreshold} }

\* URLs that ValidateURL turns down: empty, no scheme, a scheme other than
\* http and https, no host; the last has no scheme and is rejected by
\* url.Parse as well
InvalidURLs == {"", "h2/x", "ftp://h1/f", "http:///p", UnparseableURL}

\* what the workers are given: the inputs of SpecRetry and the invalid URLs
TimeoutInputs ==
    Inputs \cup { [url |-> u, script |-> <<Response(200, "")>>] : u \in InvalidURLs }

\* acquireRateLimiters, line 183: s.rateLimiter <- struct{}{}; lines
\* 186-187: url.Parse and parsedURL.Host, a nil dereference when Parse
\* failed: the goroutine panics with the slot taken
ScrapeURLAcquireGlobal(c) ==
    /\ ~crashed
    /\ rpc[c] = "start"
    /\ CanSend(rateLimiter, config.MaxConcurrent)
    /\ rateLimiter' = rateLimiter + 1
    /\ rpc' = [rpc EXCEPT ![c] =
                 IF Parse(input[c].url).err THEN "panicking"
                 ELSE IF HasDomainLimit(Parse(input[c].url).Host)
                      THEN "want_domain" ELSE "idle"]
    /\ UNCHANGED <<now, cbVars, confVars, clientVars, crashed, storeVars,
                   apiVars, fpc, resultsChan, chanClosed, results, closer,
                   domainLimiters, wg, site, input, attempt, script, fnErr,
                   lastErr, data, invocations, slept, wakeAt, metrics,
                   breakers>>

\* acquireRateLimiters, line 194: domainLimiter <- struct{}{}
ScrapeURLAcquireDomain(c) ==
    /\ ~crashed
    /\ rpc[c] = "want_domain"
    /\ LET h == Parse(input[c].url).Host
       IN /\ CanSend(domainLimiters[h], config.DomainLimit)
          /\ domainLimiters' = [domainLimiters EXCEPT ![h] = @ + 1]
    /\ rpc' = [rpc EXCEPT ![c] = "idle"]
    /\ UNCHANGED <<now, cbVars, confVars, clientVars, crashed, storeVars,
                   apiVars, fpc, resultsChan, chanClosed, results, closer,
                   rateLimiter, wg, site, input, attempt, script, fnErr,
                   lastErr, data, invocations, slept, wakeAt, metrics,
                   breakers>>

\* scrapeURL, lines 78-81: the data doScrape returned is sent; then the
\* deferred releaseRateLimiters, line 201: <-s.rateLimiter
ScrapeURLReleaseGlobal(c) ==
    /\ ~crashed
    /\ rpc[c] = "done"
    /\ rateLimiter' = rateLimiter - 1
    /\ rpc' = [rpc EXCEPT ![c] =
                 IF HasDomainLimit(Parse(input[c].url).Host)
                 THEN "release_domain" ELSE "released"]
    /\ UNCHANGED <<now, cbVars, confVars, clientVars, crashed, storeVars,
                   apiVars, fpc, resultsChan, chanClosed, results, closer,
                   domainLimiters, wg, site, input, attempt, script, fnErr,
                   lastErr, data, invocations, slept, wakeAt, metrics,
                   breakers>>

\* releaseRateLimiters, lines 203-213: <-domainLimiter
ScrapeURLReleaseDomain(c) ==
    /\ ~crashed
    /\ rpc[c] = "release_domain"
    /\ LET h == Parse(input[c].url).Host
       IN domainLimiters' = [domainLimiters EXCEPT ![h] = @ - 1]
    /\ rpc' = [rpc EXCEPT ![c] = "released"]
    /\ UNCHANGED <<now, cbVars, confVars, clientVars, crashed, storeVars,
                   apiVars, fpc, resultsChan, chanClosed, results, closer,
                   rateLimiter, wg, site, input, attempt, script, fnErr,
                   lastErr, data, invocations, slept, wakeAt, metrics,
                   breakers>>

\* the panic of acquireRateLimiters has unwound the goroutine of scrapeURL
\* (its deferred s.wg.Done() has run) with no recover: the runtime prints
\* it and the process exits.  Until this step the other goroutines go on.
ScrapeURLPanicExit(c) ==
    /\ ~crashed
    /\ rpc[c] = "panicking"
    /\ crashed' = TRUE
    /\ rpc' = [rpc EXCEPT ![c] = "panicked"]
    /\ UNCHANGED <<now, cbVars, confVars, clientVars, storeVars,
                   apiVars, fpc, resultsChan, chanClosed, results, closer,
                   rateLimiter, domainLimiters, wg, site, input, attempt,
                   script, fnErr, lastErr, data, invocations, slept, wakeAt,
                   metrics, breakers>>

\* line 288: the deadline of context.WithTimeout(.., TotalTimeout) passes
CtxDeadline ==
    /\ ~crashed
    /\ ~ctxDone
    /\ ctxDone' = TRUE
    /\ UNCHANGED <<now, cbVars, retryVars, confVars, lastOp, storeCall, passedStart, mapVars,
                   titleVars, crashed, storeVars, apiVars, scraperVars>>

InitTimeout ==
    /\ now = 0
    /\ config \in TimeoutConfigs
    /\ storageKind = "memory"
    /\ cb = NewCircuitBreaker(config.CircuitBreakerThreshold,
                              config.CircuitBreakerTimeout, 0)
    /\ cpc = [c \in Callers |-> "idle"]
    /\ ret = [c \in Callers |-> NoReturn]
    /\ calls = 0
    /\ consec = 0
    /\ InitJobs
    /\ InitStoreIdle
    /\ passedStart = [j \in Jobs |-> NilTime]
    /\ InitTitleIdle
    /\ InitCtxIdle
    /\ input \in [Callers -> TimeoutInputs]
    /\ rpc = [c \in Callers |-> "start"]
    /\ attempt = [c \in Callers |-> 0]
    /\ script = [c \in Callers |-> input[c].script]
    /\ fnErr = [c \in Callers |-> NilError]
    /\ lastErr = [c \in Callers |-> NilError]
    /\ data = [c \in Callers |-> FetchData("", 0, "")]
    /\ invocations = [c \in Callers |-> 0]
    /\ slept = [c \in Callers |-> <<>>]
    /\ wakeAt = [c \in Callers |-> 0]
    /\ metrics = NewMetrics
    /\ breakers = 0

NextTimeout ==
    \/ \E c \in Callers : ScrapeURLAcquireGlobal(c)
    \/ \E c \in Callers : ScrapeURLPanicExit(c)
    \/ \E c \in Callers : ScrapeURLAcquireDomain(c)
    \/ \E c \in Callers : ScrapeURLReleaseGlobal(c)
    \/ \E c \in Callers : ScrapeURLReleaseDomain(c)
    \/ CtxDeadline
    \/ NextRetry

SpecTimeout == InitTimeout /\ [][NextTimeout]_vars

(***************************************************************************)
(* SpecStatus: doScrape for a URL whose server answers every request with  *)
(* one HTTP status, for each error status and for 200.  Worker 1 fetches   *)
(* it; the other workers are given a URL that ValidateURL turns down.      *)
(***************************************************************************)
\* strategy.go 72: a response with a status from here on is an HTTP error
ErrorStatus == 400

Statuses == {200} \cup ErrorStatus..MaxStatus

StatusInputs ==
    { [url |-> "http://h1/a", script |-> <<Response(s, "")>>] : s \in Statuses }

StatusConfigs ==
    { c \in RetryConfigs : /\ c.RetryAttempts \in {0, 2}
                           /\ c.CircuitBreakerThreshold \in {1, MaxRetryThreshold}
                           /\ c.RetryDelay = 1 }

InitStatus ==
    /\ now = 0
    /\ config \in StatusConfigs
    /\ storageKind = "memory"
    /\ cb = NewCircuitBreaker(config.CircuitBreakerThreshold,
                              config.CircuitBreakerTimeout, 0)
    /\ cpc = [c \in Callers |-> "idle"]
    /\ ret = [c \in Callers |-> NoReturn]
    /\ calls = 0
    /\ consec = 0
    /\ InitJobs
    /\ InitStoreIdle
    /\ passedStart = [j \in Jobs |-> NilTime]
    /\ InitTitleIdle
    /\ InitCtxIdle
    /\ \E i \in StatusInputs :
          input = [c \in Callers |->
                     IF c = 1 THEN i
                     ELSE [url |-> "ftp://h1/f", script |-> <<Response(200, "")>>]]
    /\ rpc = [c \in Callers |-> "idle"]
    /\ attempt = [c \in Callers |-> 0]
    /\ script = [c \in Callers |-> input[c].script]
    /\ fnErr = [c \in Callers |-> NilError]
    /\ lastErr = [c \in Callers |-> NilError]
    /\ data = [c \in Callers |-> FetchData("", 0, "")]
    /\ invocations = [c \in Callers |-> 0]
    /\ slept = [c \in Callers |-> <<>>]
    /\ wakeAt = [c \in Callers |-> 0]
    /\ metrics = NewMetrics
    /\ breakers = 0

SpecStatus == InitStatus /\ [][NextRetry]_vars

(***************************************************************************)
(* Claims about the circuit breaker, checked under SpecCB.                 *)
(***************************************************************************)
\* a step that is the admission check of caller c
IsAdmissionCheck(c) == cpc[c] = "idle" /\ cpc'[c] # "idle"

\* C6: after failureThreshold consecutive failed executions the breaker is
\* open (the first failure opens it when failureThreshold = 1); an admission
\* check that leaves the breaker open rejects the call, and a rejected call
\* returns the breaker-open error without ever reaching the guarded function.
C6_OpensAtThresholdAndRejects ==
    [][ /\ (consec' > consec /\ consec' >= cb.failureThreshold)
              => cb'.state = StateOpen
        /\ \A c \in Callers :
              /\ (IsAdmissionCheck(c) /\ cb'.state = StateOpen)
                    => cpc'[c] = "rejected"
              /\ cpc[c] = "rejected"
                    => /\ cpc'[c] \in {"rejected", "idle"}
                       /\ (cpc'[c] = "idle" => IsCircuitBreakerError(ret'[c]))
      ]_vars

\* C6 witness: with failureThreshold = 1 one failure was recorded, the
\* breaker is open and the next call was rejected with the breaker-open error
C6_Witness ==
    /\ cb.failureThreshold = 1
    /\ cb.totalFailures = 1
    /\ cb.totalRequests = 1
    /\ consec = 1
    /\ cb.state = StateOpen
    /\ \E c \in Callers : IsCircuitBreakerError(ret[c])

\* C7 (as claimed): at an admission check of an open breaker, the breaker
\* moves to half-open exactly when now - lastStateChange >= resetTimeout.
C7_HalfOpenExactlyAtTransitionAge ==
    [][ \A c \in Callers :
           (IsAdmissionCheck(c) /\ cb.state = StateOpen)
              => ((cb'.state = StateHalfOpen)
                    <=> (now - cb.lastStateChange >= cb.resetTimeout))
      ]_vars

\* C8: in half-open with halfOpenLimit = 1 a recorded success closes the
\* breaker and a recorded failure reopens it; closing leaves failureCount at
\* zero, and with failureThreshold = 2 the next failure leaves the breaker
\* closed with failureCount = 1.
C8_HalfOpenProbe ==
    [][ /\ (cb.state = StateHalfOpen /\ cb.halfOpenLimit = 1
              /\ cb'.totalSuccesses > cb.totalSuccesses)
              => cb'.state = StateClosed
        /\ (cb.state = StateHalfOpen /\ cb'.totalFailures > cb.totalFailures)
              => cb'.state = StateOpen
        /\ (cb.state # StateClosed /\ cb'.state = StateClosed)
              => cb'.failureCount = 0
        /\ (cb.state = StateClosed /\ cb.failureCount = 0
              /\ cb.failureThreshold = 2
              /\ cb'.totalFailures > cb.totalFailures)
              => (cb'.state = StateClosed /\ cb'.failureCount = 1)
      ]_vars

\* C8 witness: a breaker with failureThreshold = 2 that opened, was closed
\* by a successful probe (a transition after time 0) and then failed once
C8_Witness ==
    /\ cb.failureThreshold = 2
    /\ cb.halfOpenLimit = 1
    /\ cb.state = StateClosed
    /\ cb.lastStateChange > 0
    /\ cb.totalSuccesses = 1
    /\ cb.totalFailures = 3
    /\ cb.failureCount = 1

\* C9 (as claimed): every rejection carries State = OPEN
C9_RejectionCarriesOpen ==
    \A c \in Callers :
        IsCircuitBreakerError(ret[c]) => ret[c].State = StateOpen


\* C29: every state transition of the breaker sets failure_count and
\* success_count to zero: in the state reached by a step that changes the
\* breaker's state, both counters are zero.
C29_TransitionResetsCounters ==
    [][cb'.state # cb.state =>
          (cb'.failureCount = 0 /\ cb'.successCount = 0)]_vars

\* C29 witness: a breaker with failureThreshold = 2 has just opened on its
\* second failure, and its counters are zero
C29_Witness ==
    /\ cb.failureThreshold = 2
    /\ cb.state = StateOpen
    /\ cb.totalFailures = 2
    /\ cb.totalSuccesses = 0
    /\ cb.failureCount = 0
    /\ cb.successCount = 0

\* caller c is between recordRequest and recordFailure / recordSuccess
InProgress(c) == cpc[c] \in {"calling", "fn_failed", "fn_ok"}

\* the step is a step of a rejected call of caller c
RejectionStep(c) ==
    cpc'[c] # cpc[c] /\ (cpc[c] = "rejected" \/ cpc'[c] = "rejected")

\* C30: the lifetime totals of a breaker never decrease, a rejected call
\* changes none of them, and in every state GetStats can see,
\* total_requests >= total_failures + total_successes, with equality when
\* no guarded call is in progress.
C30_TotalsMonotoneAndBalanced ==
    [][ /\ cb'.totalRequests >= cb.totalRequests
        /\ cb'.totalFailures >= cb.totalFailures
        /\ cb'.totalSuccesses >= cb.totalSuccesses
        /\ \A c \in Callers :
              RejectionStep(c) =>
                 /\ cb'.totalRequests = cb.totalRequests
                 /\ cb'.totalFailures = cb.totalFailures
                 /\ cb'.totalSuccesses = cb.totalSuccesses
        /\ cb'.totalRequests >= cb'.totalFailures + cb'.totalSuccesses
        /\ (\A c \in Callers : cpc'[c] \notin {"calling", "fn_failed", "fn_ok"})
              => cb'.totalRequests = cb'.totalFailures + cb'.totalSuccesses
      ]_vars

\* C30 witness: after a failure and a rejected call, a guarded call is in
\* progress and total_requests is one more than failures plus successes
C30_Witness ==
    /\ cb.totalFailures >= 1
    /\ \E c \in Callers : IsCircuitBreakerError(ret[c])
    /\ \E c \in Callers : InProgress(c)
    /\ cb.totalRequests = cb.totalFailures + cb.totalSuccesses + 1


\* every Execute call started so far has returned
AllReturned == \A c \in Callers : cpc[c] = "idle"

\* C31: for every interleaving of N concurrent failing Execute calls on one
\* breaker with N >= failure_threshold, the breaker is open once all N
\* calls have returned (no guarded function succeeded, so every admitted
\* call recorded a failure).
C31_OpenAfterConcurrentFailures ==
    ( /\ AllReturned
      /\ calls >= cb.failureThreshold
      /\ cb.totalSuccesses = 0 ) => cb.state = StateOpen

\* C31 witness: two callers ran one failing call each against a breaker
\* with failureThreshold = 2; both have returned the error of the function
C31_Witness ==
    /\ cb.failureThreshold = 2
    /\ calls = 2
    /\ AllReturned
    /\ \A c \in Callers : ret[c] = FnError
    /\ cb.totalFailures = 2
    /\ cb.state = StateOpen


\* the guarded invocations in progress
InvocationsInProgress == { c \in Callers : InProgress(c) }

\* C38: while a breaker is half_open, at most halfopen_probe_count guarded
\* invocations are in progress at the same time, for every interleaving of
\* concurrent callers of Execute.
C38_HalfOpenProbesBounded ==
    cb.state = StateHalfOpen =>
        Cardinality(InvocationsInProgress) <= cb.halfOpenLimit

\* the step records a failure, a success
FailureStep == cb'.totalFailures > cb.totalFailures
SuccessStep == cb'.totalSuccesses > cb.totalSuccesses

\* C39: in the closed state a successful execution leaves failure_count
\* unchanged: a closed breaker opens as soon as the number of failures since
\* its last transition reaches failure_threshold, also when successful
\* executions occurred between those failures.  failure_count is zero on
\* entering the closed state, in the closed state it changes only by a
\* recorded failure, which adds one, and the failure that brings it to the
\* threshold, and no other, opens the breaker.
C39_SuccessKeepsFailureCount ==
    [][ /\ (cb.state # StateClosed /\ cb'.state = StateClosed)
              => cb'.failureCount = 0
        /\ (cb.state = StateClosed /\ SuccessStep)
              => (cb'.state = StateClosed /\ cb'.failureCount = cb.failureCount)
        /\ (cb.state = StateClosed /\ ~FailureStep)
              => (cb'.state = StateClosed /\ cb'.failureCount = cb.failureCount)
        /\ (cb.state = StateClosed /\ FailureStep)
              => /\ cb'.state = StateOpen <=>
                       cb.failureCount + 1 >= cb.failureThreshold
                 /\ cb'.state = StateClosed =>
                       cb'.failureCount = cb.failureCount + 1
      ]_vars

\* C39 witness: with failureThreshold = 2 a failure, then a success, then a
\* second failure: the breaker opened on a failure that followed a success
C39_Witness ==
    /\ cb.failureThreshold = 2
    /\ cb.state = StateOpen
    /\ cb.totalFailures = 2
    /\ cb.totalSuccesses = 1
    /\ consec = 1
    /\ calls = 3
    /\ AllReturned

(***************************************************************************)
(* Claims about the job pipeline (Spec).                                   *)
(***************************************************************************)
\* the job slots whose request was accepted as a batch job
IsBatch(j) == job[j] # NoJob /\ req[j].SiteURL = ""

\* the URLs of the request of job j, as a set
SubmittedSet(j) == { req[j].URLs[i] : i \in 1..Len(req[j].URLs) }

\* the Results of job j delivered so far: collected or in the channel
Delivered(j) == results[j] \o resultsChan[j]

\* the fetches of job j that have ended, normally or by a panic
EndedFetches(j) ==
    { i \in 1..Len(req[j].URLs) :
         fpc[j][i] \in {"sent", "release_domain", "released", "done", "panic_exit",
                         "panicked"} }

\* how many Results of the sequence rs carry URL u
CountResults(rs, u) == Cardinality({ k \in 1..Len(rs) : rs[k].URL = u })

\* how many times URL u was submitted in urls
CountSubmitted(urls, u) == Cardinality({ k \in 1..Len(urls) : urls[k] = u })

\* C1: for every batch job, whatever the outcome of each URL (success,
\* error, invalid URL, URL that does not parse), every fetch that has ended
\* has delivered exactly one Result carrying one of the submitted URLs, and
\* a job stored as completed holds exactly one Result per submitted URL.
C1_OneResultPerURL ==
    \A j \in Jobs :
        IsBatch(j) =>
            /\ Len(Delivered(j)) = Cardinality(EndedFetches(j))
            /\ \A k \in 1..Len(Delivered(j)) :
                  Delivered(j)[k].URL \in SubmittedSet(j)
            /\ GetJob(j).Status = "completed" =>
                  /\ Len(GetJob(j).Results) = Len(req[j].URLs)
                  /\ \A u \in SubmittedSet(j) :
                        CountResults(GetJob(j).Results, u)
                            = CountSubmitted(req[j].URLs, u)

\* the stored status of a job is terminal
IsTerminal(status) == status \in {"completed", "failed"}

\* C2: every job that submit accepted (202) ends with a terminal status in
\* the store: once its executor has returned, or the process has died, no
\* later step changes the record, so the stored status is terminal by then.
C2_AcceptedJobEndsTerminal ==
    \A j \in Jobs :
        (resp[j] = 202 /\ (epc[j] = "done" \/ crashed))
            => IsTerminal(GetJob(j).Status)

\* one step of the stored status along the allowed paths (or no change)
AllowedStatusStep(a, b) ==
    \/ a = b
    \/ a = "absent" /\ b = "pending"
    \/ a = "pending" /\ b = "running"
    \/ a = "running" /\ IsTerminal(b)

\* completed_at >= started_at >= created_at, for the timestamps that are set
TimestampsOrdered(rec) ==
    /\ rec.StartedAt # NilTime => rec.StartedAt.wall >= rec.CreatedAt.wall
    /\ rec.CompletedAt # NilTime =>
          /\ rec.StartedAt # NilTime
          /\ rec.CompletedAt.wall >= rec.StartedAt.wall

\* C3: in every step (also a step in which an UpdateJob call fails) the
\* status of each stored job stays or moves pending -> running ->
\* completed/failed, and the stored timestamps are ordered.
C3_StatusPath ==
    [][\A j \in Jobs :
          /\ AllowedStatusStep(GetJob(j).Status, GetJob(j)'.Status)
          /\ TimestampsOrdered(GetJob(j)')]_vars

\* C4: HandleScrape has written the job with status pending to the store
\* before it starts executeScrapingJob and before it answers 202: while the
\* handler stands between the write of SaveJob and the go statement the
\* record is pending
\* and no executor runs; whenever an executor exists, or 202 was answered,
\* GetJob finds the job, with status pending, running or completed.
C4_PendingSavedBeforeStartAndAnswer ==
    \A j \in Jobs :
        /\ hpc[j] \in {"save_sadd", "saved"} =>
              /\ epc[j] = "none"
              /\ resp[j] = 0
              /\ GetJob(j) = Stored(NewJob(j, GetJob(j).CreatedAt.wall))
        /\ (epc[j] # "none" \/ resp[j] = 202) =>
              /\ GetJob(j).ID = j
              /\ GetJob(j).Status \in {"pending", "running", "completed"}
        /\ resp[j] = 202 => epc[j] # "none"

\* C5: a request whose body is not JSON, or that carries neither urls nor
\* site_url, is answered 400; and after a 400 or a 500 answer no executor
\* was started and the store holds no record of the job.
C5_ErrorsLeaveNothing ==
    \A j \in Jobs :
        hpc[j] = "done" =>
            /\ (req[j].method = "POST"
                  /\ (~req[j].json \/ (req[j].SiteURL = "" /\ req[j].URLs = <<>>)))
                 => resp[j] = 400
            /\ resp[j] \in {400, 500} =>
                  /\ epc[j] = "none"
                  /\ GetJob(j) = NoJob

\* the fetches that hold a slot of the global semaphore
HoldGlobal ==
    { <<j, i>> \in Jobs \X FetchIds :
         i \in DOMAIN fpc[j] /\ fpc[j][i] \in {"want_domain", "acquired", "sent"} }

\* the fetches that hold a slot of the semaphore of host h
HoldDomain(h) ==
    { <<j, i>> \in Jobs \X FetchIds :
         /\ i \in DOMAIN fpc[j]
         /\ fpc[j][i] \in {"acquired", "sent", "release_domain"}
         /\ HasDomainLimit(h)
         /\ Parse(FetchURL(j, i)).Host = h }

\* C10: the slots held in each semaphore are exactly those of the fetches
\* that are between their acquire and their release; a fetch that has left
\* by any path (result sent, invalid URL, URL that fails to parse, panic)
\* holds none, so with no fetch in progress both semaphores are empty.
C10_SlotsReleasedOnEveryExit ==
    /\ rateLimiter = Cardinality(HoldGlobal)
    /\ \A h \in Hosts : domainLimiters[h] = Cardinality(HoldDomain(h))

(***************************************************************************)
(* Claims about admission (SpecAdmission).                                 *)
(***************************************************************************)
\* the fetches that are inside doScrape, where the strategy is invoked:
\* past acquireRateLimiters and before doScrape has returned
InDoScrape ==
    { <<j, i>> \in Jobs \X FetchIds : i \in DOMAIN fpc[j] /\ fpc[j][i] = "acquired" }

\* the fetches inside doScrape whose URL has host h
InDoScrapeFor(h) ==
    { f \in InDoScrape : Parse(FetchURL(f[1], f[2])).Host = h }

\* the fetches that wait for a slot of the global semaphore
WaitGlobal ==
    { <<j, i>> \in Jobs \X FetchIds : i \in DOMAIN fpc[j] /\ fpc[j][i] = "start" }

\* C11: at every moment at most Config.MaxConcurrent fetches, counted over
\* all hosts and all running batch and pagination jobs, are inside doScrape
\* (where the strategy is invoked); with MaxConcurrent = 1 at most one is.
C11_GlobalLimit ==
    /\ Cardinality(InDoScrape) <= config.MaxConcurrent
    /\ config.MaxConcurrent = 1 => Cardinality(InDoScrape) <= 1

\* C11, its case: MaxConcurrent fetches of two different jobs, one of them a
\* pagination job, are inside doScrape while a further fetch waits.
C11_Witness ==
    /\ Cardinality(InDoScrape) = config.MaxConcurrent
    /\ WaitGlobal # {}
    /\ \E f \in InDoScrape, g \in InDoScrape \cup WaitGlobal :
          f[1] # g[1] /\ f[2] = 0

\* C12: for the host with a configured limit, at most
\* Config.DomainRateLimit[host] fetches for that host are inside doScrape;
\* the fetches for a host without a configured limit are bounded by
\* MaxConcurrent only.
C12_DomainLimit ==
    \A h \in Hosts :
        /\ HasDomainLimit(h) => Cardinality(InDoScrapeFor(h)) <= config.DomainLimit
        /\ Cardinality(InDoScrapeFor(h)) <= config.MaxConcurrent

\* C12, its case: a fetch for the limited host waits for the host's slot
\* although the global semaphore admitted it, while another fetch for that
\* host is inside doScrape.
C12_Witness ==
    \E j \in Jobs, i \in FetchIds :
        /\ i \in DOMAIN fpc[j]
        /\ fpc[j][i] = "want_domain"
        /\ Cardinality(InDoScrapeFor("h1")) = config.DomainLimit


\* fetch i of job j holds the global slot and, where its host is limited,
\* the slot of its host
HoldsBoth(j, i) == i \in DOMAIN fpc[j] /\ fpc[j][i] = "acquired"

\* fetch i of job j has given its slots back
Released(j, i) == i \in DOMAIN fpc[j] /\ fpc[j][i] \in {"released", "done", "none"}

\* C37: the layered admission never deadlocks: for the concurrent fetches
\* of all jobs over limited and unlimited hosts and every capacity >= 1,
\* every fetch that starts acquiring eventually holds the global slot and
\* its per-host slot and later releases them, under fair scheduling and
\* with every strategy invocation returning (and as long as no goroutine
\* panics, which ends the process).
C37_AdmissionNeverDeadlocks ==
    \A j \in Jobs, i \in FetchIds :
       /\ (i \in DOMAIN fpc[j] /\ fpc[j][i] = "start")
             ~> (crashed \/ HoldsBoth(j, i))
       /\ HoldsBoth(j, i) ~> (crashed \/ Released(j, i))

\* C37 witness: with one global slot and one slot for h1, a fetch of h1
\* holds both while another fetch of h1 waits for the global slot
C37_Witness ==
    /\ config.MaxConcurrent = 1
    /\ ~crashed
    /\ \E j, k \in Jobs, i, l \in FetchIds :
          /\ <<j, i>> # <<k, l>>
          /\ HoldsBoth(j, i)
          /\ HasDomainLimit(Parse(FetchURL(j, i)).Host)
          /\ l \in DOMAIN fpc[k]
          /\ fpc[k][l] = "start"
          /\ rateLimiter = 1
          /\ domainLimiters["h1"] = 1

(***************************************************************************)
(* Claims about doScrape's retry loop, checked on SpecRetry.               *)
(***************************************************************************)
\* the fetch of worker c has returned
Returned(c) == rpc[c] = "done"

\* C13 as stated: with retry_attempts = 1 the strategy is invoked exactly
\* one time for every URL (so a returned fetch has one invocation) and no
\* retry is recorded, whatever error the invocation returns.
C13_ExactlyOneInvocation ==
    config.RetryAttempts = 1 =>
       /\ metrics.retries = 0
       /\ \A c \in Callers :
             /\ invocations[c] <= 1
             /\ slept[c] = <<>>
             /\ Returned(c) => invocations[c] = 1

\* C13 amended: with retry_attempts = 1 the strategy is invoked at most one
\* time for every URL and no retry is recorded whatever error it returns;
\* it is invoked exactly once when the URL is valid and the host's breaker
\* admits the attempt.
C13_AtMostOneInvocation ==
    config.RetryAttempts = 1 =>
       /\ metrics.retries = 0
       /\ \A c \in Callers :
             /\ invocations[c] <= 1
             /\ slept[c] = <<>>
             /\ ( /\ Returned(c)
                  /\ ValidateURL(input[c].url)
                  /\ ~IsCircuitBreakerError(lastErr[c]) ) => invocations[c] = 1

\* a fetch with retry_attempts = 1 returned after one invocation that ended
\* with a retryable error
C13_Witness ==
    /\ config.RetryAttempts = 1
    /\ \E c \in Callers :
          /\ Returned(c)
          /\ invocations[c] = 1
          /\ IsScraperError(lastErr[c])
          /\ lastErr[c].Retryable
          /\ data[c].Error # ""

\* the server answers the URL of worker c with 503, 503, 200
Script503503200 == <<Response(503, ""), Response(503, ""), Response(200, "")>>

\* worker c fetches a URL that the server answers with 503, 503, 200
Fetch503503200(c) ==
    /\ input[c].url = "http://h1/a"
    /\ input[c].script = Script503503200

\* the retries recorded for the fetches of the workers 1..n: line 156
\* records a retry and line 159 sleeps, once per retry
RECURSIVE RetriesUpTo(_)
RetriesUpTo(n) ==
    IF n = 0 THEN 0 ELSE Len(slept[n]) + RetriesUpTo(n - 1)

\* the fetch ended as C14 says: status 200, no error, three invocations,
\* sleeps of retry_base_delay times 1 and times 2, and the retry counter
\* holds two retries of this fetch besides those of the other fetches
EndedWith200AfterTwoRetries(c) ==
    /\ data[c].Status = 200
    /\ data[c].Error = ""
    /\ invocations[c] = 3
    /\ slept[c] = <<config.RetryDelay * 1, config.RetryDelay * 2>>
    /\ metrics.retries = RetriesUpTo(NumCallers)
    /\ metrics.retries - (RetriesUpTo(NumCallers) - Len(slept[c])) = 2

\* C14 as stated: for one URL whose successive strategy outcomes are 503,
\* 503, 200 and retry_attempts = 3, the fetch ends with one Result of status
\* 200 and no error after three strategy invocations, the retry counter has
\* grown by exactly two, and each retry was preceded by a sleep of
\* retry_base_delay times the attempt number.
C14_RetriesUntil200 ==
    \A c \in Callers :
       ( /\ config.RetryAttempts = 3
         /\ Fetch503503200(c)
         /\ Returned(c) ) => EndedWith200AfterTwoRetries(c)

\* C14 amended: the same, when the host's circuit breaker rejects none of
\* the fetch's attempts (a rejection of the breaker is the last error of
\* the fetch, as the loop ends with it).
C14_RetriesUntil200_NotRejected ==
    \A c \in Callers :
       ( /\ config.RetryAttempts = 3
         /\ Fetch503503200(c)
         /\ Returned(c)
         /\ ~IsCircuitBreakerError(lastErr[c]) ) =>
            EndedWith200AfterTwoRetries(c)

\* the fetch of C14 returned with status 200 after another fetch of the
\* host had been made and had failed
C14_Witness ==
    \E c \in Callers, o \in Callers :
       /\ o # c
       /\ config.RetryAttempts = 3
       /\ Fetch503503200(c)
       /\ Returned(c)
       /\ EndedWith200AfterTwoRetries(c)
       /\ Returned(o)
       /\ invocations[o] >= 1
       /\ data[o].Error # ""
       /\ cb.totalFailures >= 3

\* Execute has returned the breaker's rejection to the loop of worker c, or
\* the loop has already taken it as its last error
Rejected(c) ==
    \/ rpc[c] = "executing" /\ cpc[c] = "idle" /\ IsCircuitBreakerError(ret[c])
    \/ IsCircuitBreakerError(lastErr[c])

\* C15: when an attempt for a URL is rejected with the breaker-open error,
\* the retry loop of that URL ends at once: from then on no retry is
\* recorded for it, no backoff sleep is taken, the strategy is not invoked
\* again for it, the loop is left, and the Result returned carries an
\* error, even when attempts remain.
C15_RejectionEndsLoop ==
    [][ \A c \in Callers :
           Rejected(c) =>
              /\ invocations'[c] = invocations[c]
              /\ slept'[c] = slept[c]
              /\ attempt'[c] = attempt[c]
              /\ rpc'[c] # rpc[c] => metrics'.retries = metrics.retries
              /\ rpc'[c] \in {rpc[c], "after_loop", "done"}
              /\ rpc'[c] = "done" => data'[c].Error # "" ]_vars

\* a fetch was rejected on an attempt before the last one and returned a
\* Result with an error
C15_Witness ==
    \E c \in Callers :
       /\ IsCircuitBreakerError(lastErr[c])
       /\ attempt[c] < config.RetryAttempts
       /\ Returned(c)
       /\ data[c].Error # ""

\* C22: every Result produced for a URL satisfies exactly one of: its error
\* is present, or its status_code is at least 200 and its title is set; for
\* every configuration that Config.Validate accepts (retry_attempts >= 0)
\* and every sequence of strategy outcomes.
C22_ErrorXorStatusAndTitle ==
    \A c \in Callers :
        Returned(c) =>
            (data[c].Error # "") # (data[c].Status >= 200 /\ data[c].Title # <<>>)


\* the number of strategy invocations made by the workers 1..n
RECURSIVE InvocationsUpTo(_)
InvocationsUpTo(n) ==
    IF n = 0 THEN 0 ELSE invocations[n] + InvocationsUpTo(n - 1)

\* C33: a request is recorded in metrics at each attempt of the retry loop:
\* after a URL has finished with k strategy attempts, total_requests has
\* grown by k for that URL, so once every fetch has returned total_requests
\* equals the number of strategy invocations made.
C33_RequestRecordedPerAttempt ==
    (\A c \in Callers : Returned(c)) =>
        metrics.requests = InvocationsUpTo(NumCallers)

\* C34: for every host at most one breaker is ever created: concurrent first
\* fetches to the same host all run through the same breaker instance, and
\* a breaker once created is never replaced or removed, so its state
\* persists: the count of breakers created for the host never passes one
\* and never drops, and a fetch that begins when the breaker exists leaves
\* the stored breaker as it found it.
C34_OneBreakerPerHost ==
    [][/\ breakers' <= 1
       /\ breakers' >= breakers
       /\ \A c \in Callers :
            (breakers = 1 /\ rpc[c] = "idle" /\ rpc'[c] = "record_request")
                => cb' = cb]_vars

\* C34 witness: the first fetch has returned after failures counted by the
\* breaker, and a second fetch to the same host has begun and found the one
\* breaker with those counts
C34_Witness ==
    /\ breakers = 1
    /\ rpc[1] = "done"
    /\ rpc[2] = "loop"
    /\ cb.totalFailures >= 1
    /\ cb.failureCount >= 1

(***************************************************************************)
(* Claims about pagination, checked on SpecSite.                           *)
(***************************************************************************)
\* ScrapeSite of job j has returned its results
SiteReturned(j) == req[j].SiteURL # "" /\ epc[j] \notin {"none", "site_loop", "site_fetch"}

\* the URLs of a sequence of results
ResultURLs(rs) == [k \in 1..Len(rs) |-> rs[k].URL]

\* C16: a pagination job fetches at most max_pages pages and returns at
\* most max_pages Results in fetch order (each Result is appended right
\* after its page was fetched); with max_pages = 1 it returns exactly one
\* Result whatever next_url the seed reports; with max_pages = 2 and the
\* chain seed -> P2 -> P3 it returns exactly the Results of seed and P2 and
\* never fetches P3.
C16_PaginationBounded ==
    \A j \in Jobs :
       req[j].SiteURL # "" =>
          /\ site[j].pages <= config.MaxPages
          /\ Cardinality(site[j].visited) = site[j].pages
          /\ Len(resultsChan[j]) <= site[j].pages
          /\ (epc[j] = "site_loop" /\ site[j].pages > 0) =>
                /\ Len(resultsChan[j]) = site[j].pages
                /\ resultsChan[j][Len(resultsChan[j])].URL = site[j].cur
          /\ SiteReturned(j) =>
                /\ Len(results[j]) = site[j].pages
                /\ Len(results[j]) <= config.MaxPages
                /\ config.MaxPages = 1 => ResultURLs(results[j]) = <<req[j].SiteURL>>
                /\ ( /\ config.MaxPages = 2
                     /\ results[j][1].NextURL = P2 ) =>
                        /\ ResultURLs(results[j]) = <<req[j].SiteURL, P2>>
                        /\ site[j].visited = {req[j].SiteURL, P2}
                /\ epc[j] \in {"set_progress", "set_now", "set_completed_at", "set_completed",
                                "update_completed", "done"} =>
                      job[j].Results = results[j]

\* with max_pages = 2 the seed reported P2 and P2 reported P3, and the job
\* returned the Results of seed and P2
C16_Witness ==
    \E j \in Jobs :
       /\ config.MaxPages = 2
       /\ epc[j] = "done"
       /\ Len(job[j].Results) = 2
       /\ job[j].Results[1].NextURL = P2
       /\ job[j].Results[2].URL = P2
       /\ job[j].Results[2].NextURL = P3
       /\ P3 \notin site[j].visited

\* the URLs of rs are pairwise different
Distinct(rs) ==
    \A k, l \in 1..Len(rs) : rs[k].URL = rs[l].URL => k = l

\* no URL was fetched twice by job j: every fetch leaves one Result with its
\* URL, and the page being fetched has no Result yet
NoRefetch(j) ==
    /\ Distinct(resultsChan[j])
    /\ Distinct(results[j])
    /\ epc[j] = "site_fetch" =>
          \A k \in 1..Len(resultsChan[j]) : resultsChan[j][k].URL # site[j].cur

\* C35: a pagination job always terminates, assuming every fetch returns,
\* including when next_url links form a cycle: ScrapeSite of every job
\* eventually returns (unless a fetch panics and takes the process down),
\* and no URL is fetched twice within one job.
C35_SiteTerminatesWithoutRefetch ==
    /\ [](\A j \in Jobs : NoRefetch(j))
    /\ <>(crashed \/ \A j \in Jobs : SiteReturned(j))

\* C35 witness: the seed named itself as its next page, the link was queued
\* and skipped as already scraped, and the job returned the one Result
C35_Witness ==
    \E j \in Jobs :
       /\ config.MaxPages >= 2
       /\ SiteReturned(j)
       /\ Len(results[j]) = 1
       /\ results[j][1].URL = SeedURL
       /\ results[j][1].NextURL = SeedURL
       /\ site[j].queue = <<>>

(***************************************************************************)
(* Claims about the end of a job, checked on Spec.                         *)
(***************************************************************************)
\* the executor of job j will take no further step
ExecutorEnded(j) == epc[j] = "done" \/ crashed

\* C17: whatever mix of per-URL outcomes a job meets (error of the fetch,
\* invalid URL), the job is never failed, and once its executor takes no
\* further step the job is completed, the failures showing only as the
\* error of the individual Results.
C17_URLFailuresLeaveJobCompleted ==
    \A j \in Jobs :
        resp[j] = 202 =>
            /\ job[j].Status # "failed"
            /\ GetJob(j).Status # "failed"
            /\ ExecutorEnded(j) =>
                  /\ job[j].Status = "completed"
                  /\ \A k \in 1..Len(job[j].Results) :
                        ~ValidateURL(job[j].Results[k].URL)
                            => job[j].Results[k].Error # ""

\* the terminal UpdateJob call of job j's executor is made in this step and
\* its write of the record fails (Redis SET fails: the stored record is not
\* the completed one)
TerminalUpdateFails(j) ==
    /\ epc[j] = "update_completed"
    /\ epc'[j] # "update_completed"
    /\ storageKind = "redis"
    /\ redisKV'[j].data # Marshal(job[j])

\* C25: when update_job fails at the terminal transition of a job, the
\* executor calls update_job once more (and on a second failure attempts to
\* mark the job failed): the executor does not end with the failed call.
C25_TerminalUpdateRetried ==
    [][\A j \in Jobs : TerminalUpdateFails(j) => epc'[j] # "done"]_vars


\* every fetch of batch job j has delivered its Result and ended
OwnFetchesEnded(j) ==
    /\ req[j].URLs # <<>>
    /\ \A i \in 1..Len(req[j].URLs) : fpc[j][i] = "done"

\* C36: ScrapeURLs of one batch job returns once all of that job's own URL
\* fetches have delivered their Results, not waiting for fetches of other
\* batch jobs on the same Scraper: when the fetches of a collecting job have
\* all ended, the goroutine that closes the job's channel is not held in
\* s.wg.Wait() and does not find a counter above zero on entering it.
C36_WaitsOnlyForOwnFetches ==
    \A j \in Jobs :
       ( /\ ~crashed
         /\ epc[j] = "collecting"
         /\ OwnFetchesEnded(j) ) =>
            /\ closer[j] # "blocked"
            /\ closer[j] = "start" => wg.v = 0

(***************************************************************************)
(* Claims about the job store, checked on SpecStore.                       *)
(***************************************************************************)
\* what a last-writer-wins register holds for the id after the client's
\* most recent call on it
RegisterValue(id) ==
    IF lastOp[id].op \in {"save", "update"} THEN lastOp[id].rec ELSE NoJob

\* every call the client made on the id has returned
CallsReturned(id) == storeCall.id # id

\* a time as an instant (time.Time.Equal), whatever clock reading it carries
Instant(t) == [t EXCEPT !.mono = FALSE]

\* two records are equal by value: their fields are equal, the times as
\* instants
EqualByValue(a, b) ==
    [a EXCEPT !.CreatedAt = Instant(@), !.StartedAt = Instant(@),
              !.CompletedAt = Instant(@)]
    = [b EXCEPT !.CreatedAt = Instant(@), !.StartedAt = Instant(@),
                !.CompletedAt = Instant(@)]

\* C18: the store is a last-writer-wins register per job id: after any
\* sequence of save_job, update_job and delete_job calls, get_job(id)
\* returns a record equal by value to the one given to the most recent
\* save_job or update_job for id, and not-found when the most recent call
\* on id is delete_job or when id was never saved.
C18_LastWriterWins ==
    \A id \in Jobs :
       CallsReturned(id) => EqualByValue(GetJob(id), RegisterValue(id))

\* in the step an UpdateJob call on id returns no error, a call made when
\* the store had no record of the id
UpdateOfAbsent(id) ==
    /\ (IF storeCall.id = id THEN storeCall.prev ELSE GetJob(id)) = NoJob
    /\ lastOp'[id] # lastOp[id]
    /\ lastOp'[id].op = "update"
    /\ ~lastOp'[id].err

\* C40: update_job on an id absent from the store creates the record: when
\* delete_job(id) is called while the job's execution is still running,
\* get_job(id) finds the job again after the executor's terminal
\* update_job: right after an update that returned no error on an id the
\* store did not hold, a delete having removed it or not, get_job returns
\* the record the update was given, as the store returns it.
C40_UpdateCreatesAbsentRecord ==
    [][\A id \in Jobs :
          UpdateOfAbsent(id) =>
             /\ GetJob(id)' # NoJob
             /\ GetJob(id)' = Stored(lastOp'[id].rec)]_vars

\* C40 witness: the id was deleted, then updated with the completed record
\* the executor writes at its end, and get_job returns that record
C40_Witness ==
    \E id \in Jobs :
       /\ lastOp[id].op = "update"
       /\ lastOp[id].deleted
       /\ ~lastOp[id].err
       /\ lastOp[id].rec = Latin1Job(id)
       /\ GetJob(id) = Stored(Latin1Job(id))

(***************************************************************************)
(* Claims about reads of a job during its execution, checked on Spec.      *)
(***************************************************************************)
\* the executor of job j is past its first UpdateJob call
PastUpdateRunning(j) ==
    epc[j] \notin {"none", "set_running", "set_started_at", "update_running"}

\* the complete records that HandleScrape and executeScrapingJob have passed
\* to SaveJob and UpdateJob for job j so far: the pending record, the running
\* record with the started_at it had at that call, the completed record
PassedToStore(j) ==
    (IF job[j].Status # "absent"
     THEN {NewJob(j, job[j].CreatedAt.wall)} ELSE {})
    \cup
    (IF PastUpdateRunning(j)
     THEN {[NewJob(j, job[j].CreatedAt.wall) EXCEPT !.Status = "running",
                                               !.StartedAt = passedStart[j]]}
     ELSE {})
    \cup
    (IF epc[j] \in {"update_completed_sadd", "done"} THEN {job[j]} ELSE {})

\* C19: a read never observes a torn job record: every record that get_job
\* returns while a job executes is equal, field for field, to one complete
\* record that was passed to save_job or update_job (pending, running or
\* completed), for the in-memory and for the durable store.
C19_NoTornRead ==
    \A j \in Jobs :
        GetJob(j) # NoJob => GetJob(j) \in { Stored(r) : r \in PassedToStore(j) }
\* C21: every job record that get_job returns has its fields in step with
\* its status: started_at is set exactly when the status is not pending,
\* completed_at is set exactly when the status is completed or failed, and
\* progress is 100 exactly when the status is completed.
C21_RecordFieldsMatchStatus ==
    \A j \in Jobs :
        LET r == GetJob(j) IN
        r # NoJob =>
            /\ (r.StartedAt # NilTime) <=> (r.Status # "pending")
            /\ (r.CompletedAt # NilTime) <=> (r.Status \in {"completed", "failed"})
            /\ (r.Progress = 100) <=> (r.Status = "completed")

(***************************************************************************)
(* Claims about the map of the in-memory store, checked on SpecMem.        *)
(***************************************************************************)
\* C20: the in-memory job store is safe under concurrent use: no write to
\* its job map by save_job, update_job or delete_job (submit handlers and
\* executors of different jobs) ever overlaps with another read or write of
\* the same map by get_job, list_jobs, get_jobs_by_status or another writer.
C20_NoOverlappingMapAccess ==
    \A w \in mapWriters : mapWriters = {w} /\ mapReaders = {}
\* C28: extract_title is idempotent on its output: for every body and
\* content type, extracting the title of an extracted title, with the same
\* content type, gives that title again.
C28_ExtractTitleIdempotent ==
    Len(titles) >= 2 => titles[2] = titles[1]

(***************************************************************************)
(* Claims about the deadline of a batch job, checked on SpecTimeout.       *)
(***************************************************************************)
\* C23: every wait inside a URL pipeline ends when the job's context is
\* cancelled: once ctx is done, a fetch blocked on the global semaphore, on
\* its per-host semaphore, or asleep in the retry backoff can leave its wait
\* at once, with no slot freed and before the backoff delay has elapsed.
C23_WaitsEndOnCancel ==
    \A c \in Callers :
        ctxDone =>
            /\ rpc[c] = "start" => ENABLED ScrapeURLAcquireGlobal(c)
            /\ rpc[c] = "want_domain" => ENABLED ScrapeURLAcquireDomain(c)
            /\ rpc[c] = "sleeping" => ENABLED SleepReturns(c)

\* C24: when total_timeout expires during a batch job, every URL whose
\* fetch has not finished (running, waiting for a slot, asleep before a
\* retry) makes no further retry and ends with a Result whose error is set:
\* once ctx is done no fetch moves on to another attempt of its retry loop,
\* no retry is recorded, and a fetch that returns without a response has
\* its error set.
C24_TimeoutEndsFetches ==
    [][ctxDone =>
         \A c \in Callers :
            /\ attempt[c] >= 1 => attempt'[c] = attempt[c]
            /\ metrics'.retries = metrics.retries
            /\ ( /\ rpc[c] # "done"
                 /\ rpc'[c] = "done"
                 /\ config.RetryAttempts >= 1
                 /\ data'[c].Status = 0 ) => data'[c].Error # ""]_vars

\* the URL is of one of the four kinds C26 names: it is empty, has no
\* scheme, has a scheme other than http and https, or has no host, whether
\* url.Parse accepts it or not
InvalidAsClaimed(raw) ==
    LET p == Parse(raw)
    IN \/ raw = ""
       \/ p.Scheme = ""
       \/ p.Scheme \notin {"http", "https"}
       \/ p.Host = ""

\* C26: URL validation happens before any fetch attempt: a URL that is
\* empty, has no scheme, has a scheme other than http and https, or has no
\* host yields a Result with its error set, with zero strategy invocations
\* and zero retries, and its fetch never enters the breaker and changes
\* neither a breaker nor the metrics; the fetch does not end in a panic,
\* which yields no Result.
C26_InvalidURLNeverFetched ==
    [][\A c \in Callers :
          InvalidAsClaimed(input[c].url) =>
             /\ invocations'[c] = 0
             /\ slept'[c] = <<>>
             /\ attempt'[c] = 0
             /\ cpc'[c] = "idle"
             /\ rpc'[c] # "panicking"
             /\ rpc'[c] \in {"done", "released"} => data'[c].Error # ""
             /\ rpc'[c] # rpc[c] =>
                   /\ cb' = cb
                   /\ breakers' = breakers
                   /\ metrics' = metrics]_vars

\* worker c holds a slot of the global semaphore
HoldsGlobal(c) ==
    rpc[c] \in {"want_domain", "idle", "record_request", "loop", "executing",
                "sleeping", "after_loop", "done", "panicking", "panicked"}

\* worker c holds a slot of the semaphore of its host
HoldsDomain(c) ==
    /\ HasDomainLimit(Parse(input[c].url).Host)
    /\ rpc[c] \in {"idle", "record_request", "loop", "executing", "sleeping", "after_loop",
                   "done", "release_domain"}

\* C32: for each fetch the slots are acquired global first and per-host
\* second, and released in the reverse order: a fetch takes its per-host
\* slot only while it holds the global slot, and gives the global slot back
\* only when it no longer holds its per-host slot.
C32_ReleaseInReverseOrder ==
    [][\A c \in Callers :
          /\ (~HoldsDomain(c) /\ HoldsDomain(c)') => HoldsGlobal(c)
          /\ (HoldsGlobal(c) /\ ~HoldsGlobal(c)') => ~HoldsDomain(c)]_vars

(***************************************************************************)
(* Claims about the classification of errors, checked on SpecStatus.       *)
(***************************************************************************)
\* the status the server gives to every request of worker c
ServedStatus(c) == input[c].script[1].StatusCode

\* C27: an HTTP error is retryable exactly when its status is one of 408,
\* 429, 500, 502, 503, 504: the error the strategy built for a status is
\* marked retryable exactly for these, the retry loop makes a second
\* attempt after an HTTP error only for these (and does make it when
\* attempts remain and the breaker admits it), and an error built with no
\* underlying cause and no status is not retryable.
C27_RetryableStatusCodes ==
    /\ ~NewScraperError("").Retryable
    /\ \A c \in Callers :
          (ValidateURL(input[c].url) /\ ServedStatus(c) >= 400) =>
             /\ IsScraperError(fnErr[c]) =>
                   /\ fnErr[c].StatusCode = ServedStatus(c)
                   /\ fnErr[c].Retryable <=>
                         ServedStatus(c) \in {408, 429, 500, 502, 503, 504}
             /\ invocations[c] >= 2 =>
                   ServedStatus(c) \in {408, 429, 500, 502, 503, 504}
             /\ ( /\ Returned(c)
                  /\ config.RetryAttempts >= 2
                  /\ ~IsCircuitBreakerError(lastErr[c])
                  /\ ServedStatus(c) \in {408, 429, 500, 502, 503, 504} )
                     => invocations[c] >= 2

\* a fetch answered 504 slept and made a second attempt, and returned with
\* its error set
C27_Witness ==
    \E c \in Callers :
       /\ ServedStatus(c) = 504
       /\ Returned(c)
       /\ invocations[c] = 2
       /\ slept[c] # <<>>
       /\ data[c].Error # ""

====
